---- MODULE Spec2Model ----
(***************************************************************************)
(* Model of the kolmogorov_smirnov crate: the cached Ecdf structure, the   *)
(* one-shot order statistics (ecdf, rank, percentile, permille) and the    *)
(* two sample Kolmogorov-Smirnov test.                                     *)
(*                                                                         *)
(* Conventions.                                                            *)
(*  - Rust slices are 0-indexed; a slice is a TLA+ sequence and At(s, i)   *)
(*    is s[i] of the source. All cursors keep the source's 0-based value.  *)
(*  - An f64 is modelled bit for bit: [e, m] is m * 2^(e - 52) with m the  *)
(*    53-bit significand, and every division, subtraction, product and    *)
(*    square root rounds to nearest, ties to even. The literal 1.36 is the *)
(*    f64 nearest to 34 / 25. Confidence levels are the decimal numbers    *)
(*    written by the caller, exact rationals [num, den] in lowest terms.   *)
(*  - A call either returns, Ok(v), or panics, Panic(msg) with the         *)
(*    assertion that failed.                                               *)
(*  - A call is one step of the caller, except where the loop of a call   *)
(*    is followed turn by turn (rank, calculate_statistic, the main of     *)
(*    critical_values): frame then holds the locals of the call in         *)
(*    progress, and is None otherwise.                                     *)
(***************************************************************************)
EXTENDS Integers, Sequences, FiniteSets, TLC

VARIABLES samples, cached, xs, ys, confidence, out, frame

vars == <<samples, cached, xs, ys, confidence, out, frame>>

(***************************************************************************)
(* Bounds of the model.                                                    *)
(***************************************************************************)
\* Sample values are 0..MaxVal.
MaxVal == 2
\* Samples of the order statistics have 0..MaxLen elements.
MaxLen == 4
\* Query arguments run up to MaxOver past the end of their domain.
MaxOver == 1
\* Samples of the two sample test are built from seeds of 1..MaxSeedLen values.
MaxSeedLen == 2
\* Valid samples of the two sample test have MinSize+1 .. MinSize+MaxExtra elements.
MaxExtra == 2
\* Samples given to calculate_statistic alone have 0..MaxStatLen elements.
MaxStatLen == 3
\* Up to MaxAdded values are added below and above a sample.
MaxAdded == 2
\* The samples that a caller rearranges, and the second sample of a caller
\* that keeps its samples across calls, have values 0..MaxShuffleVal.
MaxShuffleVal == 1
\* The machine integers of the samples have IntBits bits (the tests use u64 and
\* i64; the functions are generic in the sample type).
IntBits == 8

(***************************************************************************)
(* Program constants.                                                      *)
(***************************************************************************)
\* test: assert!(xs.len() > 12 && ys.len() > 12)
MinSize == 12
\* percentile: assert!(0 < p && p <= 100), rank = ceil(p * length / 100.0)
PercentileMax == 100
\* permille: assert!(0 < p && p <= 1000), rank = ceil(p * length / 1000.0)
PermilleMax == 1000

Values == 0..MaxVal

\* All sequences over S with lo..hi elements.
SeqsOf(S, lo, hi) == UNION {[1..n -> S] : n \in lo..hi}

Samples == SeqsOf(Values, 0, MaxLen)

(***************************************************************************)
(* Results of a call.                                                      *)
(***************************************************************************)
Ok(v) == [status |-> "ok", val |-> v]
Panic(m) == [status |-> "panic", msg |-> m]
IsOk(r) == r.status = "ok"
None == [status |-> "none"]

At(s, i) == s[i + 1]

Swap(s, a, b) == [s EXCEPT ![a + 1] = s[b + 1], ![b + 1] = s[a + 1]]

(***************************************************************************)
(* Exact rationals: the decimal numbers of the callers and, in the         *)
(* properties, the real-valued ECDFs.                                      *)
(***************************************************************************)
RECURSIVE GCD(_, _)
GCD(a, b) == IF b = 0 THEN a ELSE GCD(b, a % b)

Abs(a) == IF a < 0 THEN -a ELSE a

\* n / d in lowest terms, d > 0
Rat(n, d) == LET g == GCD(Abs(n), d) IN [num |-> n \div g, den |-> d \div g]

Zero == Rat(0, 1)
One == Rat(1, 1)

\* |a - b|
RatAbsDiff(a, b) == Rat(Abs(a.num * b.den - b.num * a.den), a.den * b.den)

\* a > b
RatGT(a, b) == a.num * b.den > b.num * a.den

\* a <= b
RatLE(a, b) == ~RatGT(a, b)

(***************************************************************************)
(* f64 arithmetic. A finite non-negative f64 is [e, m]: m is its 53-bit    *)
(* significand as an integer of four limbs in base 2^14, least significant *)
(* first, and the value is m * 2^(e - 52); zero has no limbs. Results are  *)
(* rounded to nearest, ties to even, as the hardware does. Integers of     *)
(* arbitrary size (Big) are sequences of limbs, least significant first,   *)
(* without leading zero limbs.                                             *)
(***************************************************************************)
LimbBits == 14
LimbBase == 2^LimbBits

RECURSIVE BigTrim(_)
BigTrim(A) ==
    IF A = <<>> THEN <<>>
    ELSE IF A[Len(A)] = 0 THEN BigTrim(SubSeq(A, 1, Len(A) - 1))
    ELSE A

RECURSIVE BigOfInt(_)
BigOfInt(v) == IF v = 0 THEN <<>> ELSE <<v % LimbBase>> \o BigOfInt(v \div LimbBase)

RECURSIVE BigAddC(_, _, _)
BigAddC(A, B, carry) ==
    IF A = <<>> /\ B = <<>> THEN (IF carry = 0 THEN <<>> ELSE <<carry>>)
    ELSE LET a == IF A = <<>> THEN 0 ELSE Head(A)
             b == IF B = <<>> THEN 0 ELSE Head(B)
             v == a + b + carry
         IN <<v % LimbBase>> \o
            BigAddC(IF A = <<>> THEN A ELSE Tail(A), IF B = <<>> THEN B ELSE Tail(B),
                    v \div LimbBase)

BigAdd(A, B) == BigAddC(A, B, 0)

\* A - B for A >= B
RECURSIVE BigSubB(_, _, _)
BigSubB(A, B, borrow) ==
    IF A = <<>> THEN <<>>
    ELSE LET b == IF B = <<>> THEN 0 ELSE Head(B)
             v == Head(A) - b - borrow
         IN <<IF v < 0 THEN v + LimbBase ELSE v>> \o
            BigSubB(Tail(A), IF B = <<>> THEN B ELSE Tail(B), IF v < 0 THEN 1 ELSE 0)

BigSub(A, B) == BigTrim(BigSubB(A, B, 0))

\* The sign of A - B.
RECURSIVE BigCmp(_, _)
BigCmp(A, B) ==
    IF Len(A) # Len(B) THEN (IF Len(A) > Len(B) THEN 1 ELSE -1)
    ELSE IF A = <<>> THEN 0
    ELSE IF A[Len(A)] # B[Len(B)] THEN (IF A[Len(A)] > B[Len(B)] THEN 1 ELSE -1)
    ELSE BigCmp(SubSeq(A, 1, Len(A) - 1), SubSeq(B, 1, Len(B) - 1))

\* A * d + carry for 0 <= d < 2^16
RECURSIVE BigMulLimb(_, _, _)
BigMulLimb(A, d, carry) ==
    IF A = <<>> THEN BigOfInt(carry)
    ELSE LET v == Head(A) * d + carry
         IN <<v % LimbBase>> \o BigMulLimb(Tail(A), d, v \div LimbBase)

RECURSIVE BigMul(_, _)
BigMul(A, B) ==
    IF B = <<>> \/ A = <<>> THEN <<>>
    ELSE BigTrim(BigAdd(BigMulLimb(A, Head(B), 0), <<0>> \o BigMul(A, Tail(B))))

Zeros(w) == [k \in 1..w |-> 0]

\* A * 2^s
BigShl(A, s) ==
    IF A = <<>> THEN <<>>
    ELSE Zeros(s \div LimbBits) \o BigTrim(BigMulLimb(A, 2^(s % LimbBits), 0))

\* floor(A / 2^b) for 0 <= b < LimbBits
RECURSIVE BigShrBits(_, _)
BigShrBits(A, b) ==
    IF A = <<>> THEN <<>>
    ELSE LET next == IF Len(A) > 1 THEN A[2] ELSE 0
         IN <<(Head(A) \div 2^b) + (next % 2^b) * 2^(LimbBits - b)>> \o BigShrBits(Tail(A), b)

\* floor(A / 2^t)
BigShr(A, t) ==
    LET w == t \div LimbBits IN
    IF w >= Len(A) THEN <<>>
    ELSE BigTrim(BigShrBits(SubSeq(A, w + 1, Len(A)), t % LimbBits))

RECURSIVE IntBitLen(_)
IntBitLen(v) == IF v = 0 THEN 0 ELSE 1 + IntBitLen(v \div 2)

BigBitLen(A) == IF A = <<>> THEN 0 ELSE LimbBits * (Len(A) - 1) + IntBitLen(A[Len(A)])

\* Bit i of A (bit 0 is the least significant).
BigBit(A, i) ==
    LET w == i \div LimbBits IN
    IF w >= Len(A) THEN 0 ELSE (A[w + 1] \div 2^(i % LimbBits)) % 2

\* Some bit of A below bit t is set.
BigLowBitsSet(A, t) ==
    LET w == t \div LimbBits IN
    \/ \E k \in 1..w : k <= Len(A) /\ A[k] # 0
    \/ w < Len(A) /\ A[w + 1] % 2^(t % LimbBits) # 0

F64Zero == [e |-> 0, m |-> <<>>]

\* The f64 nearest to D * 2^ue (ties to even), for a Big D.
F64Round(D, ue) ==
    LET n == BigBitLen(D) IN
    IF n = 0 THEN F64Zero
    ELSE IF n <= 53 THEN [e |-> ue + n - 1, m |-> BigShl(D, 53 - n)]
    ELSE LET t == n - 53
             q == BigShr(D, t)
             up == BigBit(D, t - 1) = 1 /\ (BigLowBitsSet(D, t - 1) \/ q[1] % 2 = 1)
             r == IF up THEN BigAdd(q, <<1>>) ELSE q
         IN IF BigBitLen(r) > 53
            THEN [e |-> ue + n, m |-> BigShr(r, 1)]
            ELSE [e |-> ue + n - 1, m |-> r]

\* The e with 2^e <= k / n < 2^(e + 1), for k, n > 0.
RECURSIVE QuotientExponent(_, _, _)
QuotientExponent(k, n, e) ==
    IF k < n THEN QuotientExponent(2 * k, n, e - 1)
    ELSE IF k >= 2 * n THEN QuotientExponent(k, 2 * n, e + 1)
    ELSE e

\* floor((r * 2^bits + x) / d) and the remainder of that division, for
\* 0 <= r < d < 2^30 and 0 <= x < 2^bits, a bit at a time; q holds the bits
\* found so far.
RECURSIVE DivBits(_, _, _, _, _)
DivBits(r, x, d, bits, q) ==
    IF bits = 0 THEN [q |-> q, r |-> r]
    ELSE LET v == 2 * r + ((x \div 2^(bits - 1)) % 2) IN
         IF v >= d THEN DivBits(v - d, x, d, bits - 1, 2 * q + 1)
         ELSE DivBits(v, x, d, bits - 1, 2 * q)

\* The next bits of a quotient: floor(r * 2^bits / b) and the remainder, for
\* 0 <= r < b < 2^30 and bits <= LimbBits.
DivLimb(r, b, bits) ==
    IF b < 2^16 THEN [q |-> (r * 2^bits) \div b, r |-> (r * 2^bits) % b]
    ELSE DivBits(r, 0, b, bits, 0)

\* (k as f64) / (n as f64) for integers 0 <= k < 2^30 and 0 < n < 2^30: the
\* 53 bits of the quotient by long division, a limb at a time, rounded by the
\* remainder.
F64Div(k, n) ==
    IF k = 0 THEN F64Zero
    ELSE LET e == QuotientExponent(k, n, 0)
             a == IF e < 0 THEN k * 2^(0 - e) ELSE k
             b == IF e > 0 THEN n * 2^e ELSE n
             d3 == DivLimb(a - b, b, 52 - 3 * LimbBits)
             d2 == DivLimb(d3.r, b, LimbBits)
             d1 == DivLimb(d2.r, b, LimbBits)
             d0 == DivLimb(d1.r, b, LimbBits)
             q == <<d0.q, d1.q, d2.q, 2^(52 - 3 * LimbBits) + d3.q>>
             r == d0.r
             up == 2 * r > b \/ (2 * r = b /\ q[1] % 2 = 1)
             m == IF up THEN BigAdd(q, <<1>>) ELSE q
         IN IF BigBitLen(m) > 53 THEN [e |-> e + 1, m |-> BigShr(m, 1)]
            ELSE [e |-> e, m |-> m]

F64One == F64Div(1, 1)

\* a > b
F64GT(a, b) ==
    /\ a.m # <<>>
    /\ \/ b.m = <<>>
       \/ a.e > b.e
       \/ a.e = b.e /\ BigCmp(a.m, b.m) > 0

\* a <= b
F64LE(a, b) == ~F64GT(a, b)

\* a - b for a >= b
F64Sub(a, b) ==
    IF b.m = <<>> THEN a
    ELSE F64Round(BigSub(BigShl(a.m, a.e - b.e), b.m), b.e - 52)

\* Mutant of F64AbsDiff: a - b without abs(); a negative difference is never
\* greater than the running maximum, which it leaves as a difference of 0.0
\* does.
F64AbsDiff_NoAbs(a, b) == IF F64GT(a, b) THEN F64Sub(a, b) ELSE F64Zero

\* (a - b).abs()
F64AbsDiff(a, b) == IF F64GT(b, a) THEN F64Sub(b, a) ELSE F64Sub(a, b)

\* k as f64, for 0 <= k < 2^16
F64OfInt(k) == F64Div(k, 1)

\* a * b
F64Mul(a, b) ==
    IF a.m = <<>> \/ b.m = <<>> THEN F64Zero
    ELSE F64Round(BigMul(a.m, b.m), a.e + b.e - 104)

\* The integer a Big of less than 31 bits stands for.
RECURSIVE BigToInt(_)
BigToInt(A) == IF A = <<>> THEN 0 ELSE Head(A) + LimbBase * BigToInt(Tail(A))

\* floor(sqrt(v)) for 0 <= v < 2^30, a bit at a time from bit i down.
RECURSIVE IntSqrt(_, _, _)
IntSqrt(v, s, i) ==
    IF i < 0 THEN s
    ELSE IF (s + 2^i) * (s + 2^i) <= v THEN IntSqrt(v, s + 2^i, i - 1)
    ELSE IntSqrt(v, s, i - 1)

\* The limbs of floor((r * 2^(LimbBits * Len(A)) + A) / d) for a Big A and
\* 0 <= r < d < 2^30: long division from the top limb down.
RECURSIVE BigDivInt(_, _, _)
BigDivInt(A, d, r) ==
    IF A = <<>> THEN <<>>
    ELSE LET v == r * LimbBase + A[Len(A)]
             top == IF d < 2^16 THEN [q |-> v \div d, r |-> v % d]
                    ELSE DivBits(r, A[Len(A)], d, LimbBits, 0)
         IN BigDivInt(SubSeq(A, 1, Len(A) - 1), d, top.r) \o <<top.q>>

\* A step of Newton's iteration for the square root of M from the
\* approximation t * 2^k: floor((t * 2^k + floor(M / t) / 2^k) / 2).
NewtonStep(M, t, k) ==
    BigShr(BigAdd(BigShl(BigOfInt(t), k), BigShr(BigTrim(BigDivInt(M, t, 0)), k)), 1)

\* The largest S with S * S <= M, from an approximation S of it, and whether
\* S * S = M.
RECURSIVE FloorRoot(_, _)
FloorRoot(M, S) ==
    LET SS == BigMul(S, S) IN
    IF BigCmp(SS, M) > 0 THEN FloorRoot(M, BigSub(S, <<1>>))
    ELSE IF BigCmp(BigAdd(SS, BigShl(S, 1)), M) < 0 THEN FloorRoot(M, BigAdd(S, <<1>>))
    ELSE [s |-> S, exact |-> SS = M]

\* a.sqrt() for a >= 0, rounded to nearest: the significand is scaled by a
\* power of two that leaves an even exponent and a root of 55 bits; the root
\* is found from the root of the leading 30 bits by two steps of Newton's
\* iteration and a correction, and gets one more bit that says whether its
\* square falls short of the scaled significand.
F64Sqrt(a) ==
    IF a.m = <<>> THEN F64Zero
    ELSE LET s == IF a.e % 2 = 0 THEN 56 ELSE 57
             M == BigShl(a.m, s)
             t1 == IntSqrt(BigToInt(BigShr(M, 80)), 0, 14)
             t2 == BigToInt(BigShr(NewtonStep(M, t1, 40), 26))
             root == FloorRoot(M, NewtonStep(M, t2, 26))
             D == BigAdd(BigShl(root.s, 1), IF root.exact THEN <<>> ELSE <<1>>)
         IN F64Round(D, (a.e - 52 - s) \div 2 - 1)

\* a.floor() as usize, for 0 <= a < 2^30
F64Floor(a) ==
    IF a.m = <<>> \/ a.e < 0 THEN 0
    ELSE BigToInt(BigShr(a.m, 52 - a.e))

\* a.ceil() as usize, for 0 <= a < 2^30
F64Ceil(a) ==
    IF a.m = <<>> THEN 0
    ELSE IF a.e < 0 THEN 1
    ELSE F64Floor(a) + (IF BigLowBitsSet(a.m, 52 - a.e) THEN 1 ELSE 0)

(***************************************************************************)
(* slice::sort: the ascending permutation of the slice. Equal integers are *)
(* indistinguishable, so stability is not observable: the element at       *)
(* position k is the least value with at least k elements at most it.      *)
(***************************************************************************)
\* Mutant of Sort: the copy is left in input order.
Sort_Unsorted(s) == s

Sort(s) ==
    LET vals == {s[k] : k \in 1..Len(s)}
        upto == [v \in vals |-> Cardinality({k \in 1..Len(s) : s[k] <= v})]
    IN [k \in 1..Len(s) |->
           CHOOSE v \in vals : upto[v] >= k /\ \A w \in vals : w < v => upto[w] < k]

(***************************************************************************)
(* Ecdf::new                                                               *)
(***************************************************************************)
\* Mutant of Ecdf_new: the length is not checked.
Ecdf_new_NoCheck(smp) == Ok([samples |-> Sort(smp), length |-> Len(smp)])

\* Mutant of Ecdf_new: the copy is stored in the order given.
Ecdf_new_Unsorted(smp) ==
    LET length == Len(smp) IN
    IF ~(length > 0) THEN Panic("length > 0")
    ELSE Ok([samples |-> smp, length |-> length])

Ecdf_new(smp) ==
    LET length == Len(smp) IN
    IF ~(length > 0) THEN Panic("length > 0")
    ELSE Ok([samples |-> Sort(smp), length |-> length])

(***************************************************************************)
(* slice::binary_search on a sorted slice: Ok(index) of SOME element equal *)
(* to t (the standard library leaves open which one), or Err(index) with   *)
(* the insertion point when no element equals t.                           *)
(***************************************************************************)
binary_search(s, t) ==
    LET hits == {i \in 0..(Len(s) - 1) : At(s, i) = t} IN
    IF hits # {} THEN {[found |-> TRUE, index |-> i] : i \in hits}
    ELSE {[found |-> FALSE, index |-> Cardinality({i \in 0..(Len(s) - 1) : At(s, i) < t})]}

\* Mutant of WalkDuplicates: the index found by the search is used as it is.
WalkDuplicates_NoWalk(e, index, t) == index

\* while index + 1 < self.length && self.samples[index + 1] == t { index += 1 }
RECURSIVE WalkDuplicates(_, _, _)
WalkDuplicates(e, index, t) ==
    IF index + 1 < e.length /\ At(e.samples, index + 1) = t
    THEN WalkDuplicates(e, index + 1, t)
    ELSE index

(***************************************************************************)
(* Ecdf::value, given the answer bs of the binary search.                  *)
(***************************************************************************)
\* Mutant of Ecdf_value: the insertion point is taken for an index.
Ecdf_value_ErrAsIndex(e, t, bs) ==
    LET num_samples_leq_t ==
            IF bs.found THEN WalkDuplicates(e, bs.index, t) + 1 ELSE bs.index + 1
    IN Ok(F64Div(num_samples_leq_t, e.length))

Ecdf_value(e, t, bs) ==
    LET num_samples_leq_t ==
            IF bs.found THEN WalkDuplicates(e, bs.index, t) + 1 ELSE bs.index
    IN Ok(F64Div(num_samples_leq_t, e.length))

\* Mutant of CeilDiv: the quotient is truncated instead of rounded up.
CeilDiv_Floor(x, y) == x \div y

\* (x as f64 / y).ceil() as usize, for the product x of p and the length
CeilDiv(x, y) == F64Ceil(F64Div(x, y))

(***************************************************************************)
(* Ecdf::percentile, Ecdf::permille, Ecdf::rank, Ecdf::min, Ecdf::max      *)
(***************************************************************************)
\* Mutant of Ecdf_percentile: the rank is the truncated quotient plus one.
Ecdf_percentile_FloorPlusOne(e, p) ==
    IF ~(0 < p /\ p <= PercentileMax) THEN Panic("0 < p && p <= 100")
    ELSE LET rank == F64Floor(F64Div(p * e.length, PercentileMax)) + 1 IN
         IF rank - 1 \in 0..(Len(e.samples) - 1)
         THEN Ok(At(e.samples, rank - 1))
         ELSE Panic("index out of bounds")

Ecdf_percentile(e, p) ==
    IF ~(0 < p /\ p <= PercentileMax) THEN Panic("0 < p && p <= 100")
    ELSE LET rank == CeilDiv(p * e.length, PercentileMax) IN
         IF rank - 1 \in 0..(Len(e.samples) - 1)
         THEN Ok(At(e.samples, rank - 1))
         ELSE Panic("index out of bounds")

Ecdf_permille(e, p) ==
    IF ~(0 < p /\ p <= PermilleMax) THEN Panic("0 < p && p <= 1000")
    ELSE LET rank == CeilDiv(p * e.length, PermilleMax) IN
         IF rank - 1 \in 0..(Len(e.samples) - 1)
         THEN Ok(At(e.samples, rank - 1))
         ELSE Panic("index out of bounds")

\* Mutant of Ecdf_rank: the rank is counted from the largest sample.
Ecdf_rank_FromEnd(e, rank) ==
    LET length == Len(e.samples) IN
    IF ~(0 < rank /\ rank <= length) THEN Panic("0 < rank && rank <= length")
    ELSE Ok(At(e.samples, length - rank))

Ecdf_rank(e, rank) ==
    LET length == Len(e.samples) IN
    IF ~(0 < rank /\ rank <= length) THEN Panic("0 < rank && rank <= length")
    ELSE Ok(At(e.samples, rank - 1))

Ecdf_min(e) == Ok(At(e.samples, 0))

\* Mutant of Ecdf_max: the element before the last is returned.
Ecdf_max_BeforeLast(e) ==
    Ok(At(e.samples, IF Len(e.samples) > 1 THEN Len(e.samples) - 2 ELSE 0))

Ecdf_max(e) == Ok(At(e.samples, Len(e.samples) - 1))

(***************************************************************************)
(* ecdf (one-shot): one pass counting the samples <= t.                    *)
(***************************************************************************)
\* Mutant of CountLeq: samples equal to t are not counted.
RECURSIVE CountLeq_Strict(_, _)
CountLeq_Strict(smp, t) ==
    IF smp = <<>> THEN 0
    ELSE (IF Head(smp) < t THEN 1 ELSE 0) + CountLeq_Strict(Tail(smp), t)

RECURSIVE CountLeq(_, _)
CountLeq(smp, t) ==
    IF smp = <<>> THEN 0
    ELSE (IF Head(smp) <= t THEN 1 ELSE 0) + CountLeq(Tail(smp), t)

ecdf(smp, t) ==
    LET num_samples_leq_t == CountLeq(smp, t)
        length == Len(smp)
    IN IF ~(length > 0) THEN Panic("length > 0")
       ELSE Ok(F64Div(num_samples_leq_t, length))

(***************************************************************************)
(* rank (one-shot): Quick Select on a private copy of the samples.         *)
(***************************************************************************)
\* while bottom < top && samples[bottom] < pivot { bottom += 1 }
\* Mutant of ScanUpLess: the cursor also passes the items equal to the pivot.
RECURSIVE ScanUpLess_OrEqual(_, _, _, _)
ScanUpLess_OrEqual(s, bottom, top, pivot) ==
    IF bottom < top /\ At(s, bottom) <= pivot
    THEN ScanUpLess_OrEqual(s, bottom + 1, top, pivot)
    ELSE bottom

RECURSIVE ScanUpLess(_, _, _, _)
ScanUpLess(s, bottom, top, pivot) ==
    IF bottom < top /\ At(s, bottom) < pivot
    THEN ScanUpLess(s, bottom + 1, top, pivot)
    ELSE bottom

\* while bottom < top && samples[top] >= pivot { top -= 1 }
RECURSIVE ScanDownGeq(_, _, _, _)
ScanDownGeq(s, bottom, top, pivot) ==
    IF bottom < top /\ At(s, top) >= pivot
    THEN ScanDownGeq(s, bottom, top - 1, pivot)
    ELSE top

\* First partition: items less than pivot to the left.
RECURSIVE Partition1(_, _, _, _)
Partition1(s, bottom, top, pivot) ==
    IF ~(bottom < top) THEN [samples |-> s, bottom |-> bottom, top |-> top]
    ELSE LET b == ScanUpLess(s, bottom, top, pivot)
             t == ScanDownGeq(s, b, top, pivot)
         IN Partition1(IF b < t THEN Swap(s, b, t) ELSE s, b, t, pivot)

\* while bottom < top && samples[bottom] == pivot { bottom += 1 }
RECURSIVE ScanUpEq(_, _, _, _)
ScanUpEq(s, bottom, top, pivot) ==
    IF bottom < top /\ At(s, bottom) = pivot
    THEN ScanUpEq(s, bottom + 1, top, pivot)
    ELSE bottom

\* while bottom < top && samples[top] != pivot { top -= 1 }
RECURSIVE ScanDownNeq(_, _, _, _)
ScanDownNeq(s, bottom, top, pivot) ==
    IF bottom < top /\ At(s, top) # pivot
    THEN ScanDownNeq(s, bottom, top - 1, pivot)
    ELSE top

\* Mutant of Partition2: the items equal to the pivot are not moved.
Partition2_Skip(s, bottom, top, pivot) ==
    [samples |-> s, bottom |-> bottom, top |-> top]

\* Second partition: items equal to pivot to the left.
RECURSIVE Partition2(_, _, _, _)
Partition2(s, bottom, top, pivot) ==
    IF ~(bottom < top) THEN [samples |-> s, bottom |-> bottom, top |-> top]
    ELSE LET b == ScanUpEq(s, bottom, top, pivot)
             t == ScanDownNeq(s, b, top, pivot)
         IN Partition2(IF b < t THEN Swap(s, b, t) ELSE s, b, t, pivot)

\* The state of the Quick Select loop: the working copy and its window.
SelectState(s, low, high) ==
    [samples |-> s, low |-> low, high |-> high, done |-> FALSE, ret |-> None]

SelectReturn(st, r) == [st EXCEPT !.done = TRUE, !.ret = r]

\* One iteration of the loop of rank.
RankIter(st, rank) ==
    IF ~(st.low < st.high) THEN SelectReturn(st, Panic("low < high"))
    ELSE
    LET pivot == At(st.samples, st.low) IN
    IF st.low >= st.high - 1 THEN SelectReturn(st, Ok(pivot))
    ELSE
    LET p1 == Partition1(st.samples, st.low, st.high - 1, pivot) IN
    IF rank <= p1.bottom
    THEN \* Rank item is less than pivot. Exclude pivot and larger items.
         [st EXCEPT !.samples = p1.samples, !.high = p1.bottom]
    ELSE \* Rank item is pivot or in the larger set. Exclude smaller items.
         LET low == p1.bottom
             p2 == Partition2(p1.samples, low, st.high - 1, pivot)
         IN IF rank <= p2.bottom
            THEN SelectReturn([st EXCEPT !.samples = p2.samples, !.low = low], Ok(pivot))
            ELSE [st EXCEPT !.samples = p2.samples, !.low = p2.bottom]

RECURSIVE RankLoop(_, _)
RankLoop(st, rank) == IF st.done THEN st ELSE RankLoop(RankIter(st, rank), rank)

\* Mutant of rank: the window starts one short of the end of the samples.
rank_HighOffByOne(smp, r) ==
    LET length == Len(smp) IN
    IF ~(length > 0) THEN Panic("length > 0")
    ELSE IF ~(0 < r /\ r <= length) THEN Panic("0 < rank && rank <= length")
    ELSE RankLoop(SelectState(smp, 0, length - 1), r).ret

\* Mutant of rank: the rank is not checked against its domain.
rank_NoDomainCheck(smp, r) ==
    LET length == Len(smp) IN
    IF ~(length > 0) THEN Panic("length > 0")
    ELSE RankLoop(SelectState(smp, 0, length), r).ret

rank(smp, r) ==
    LET length == Len(smp) IN
    IF ~(length > 0) THEN Panic("length > 0")
    ELSE IF ~(0 < r /\ r <= length) THEN Panic("0 < rank && rank <= length")
    ELSE RankLoop(SelectState(smp, 0, length), r).ret

(***************************************************************************)
(* percentile, permille (one-shot)                                         *)
(***************************************************************************)
percentile(smp, p) ==
    IF ~(0 < p /\ p <= PercentileMax) THEN Panic("0 < p && p <= 100")
    ELSE LET length == Len(smp) IN
         IF ~(length > 0) THEN Panic("length > 0")
         ELSE rank(smp, CeilDiv(p * length, PercentileMax))

\* Mutant of permille: the rank is the truncated quotient plus one.
permille_FloorPlusOne(smp, p) ==
    IF ~(0 < p /\ p <= PermilleMax) THEN Panic("0 < p && p <= 1000")
    ELSE LET length == Len(smp) IN
         IF ~(length > 0) THEN Panic("length > 0")
         ELSE rank(smp, F64Floor(F64Div(p * length, PermilleMax)) + 1)

permille(smp, p) ==
    IF ~(0 < p /\ p <= PermilleMax) THEN Panic("0 < p && p <= 1000")
    ELSE LET length == Len(smp) IN
         IF ~(length > 0) THEN Panic("length > 0")
         ELSE rank(smp, CeilDiv(p * length, PermilleMax))

(***************************************************************************)
(* The order statistics: a caller holds a sample, may build the cached     *)
(* structure from it, and queries either front end.                        *)
(***************************************************************************)
\* Query values: every sample value, one below and one above.
QueryValues == (0 - MaxOver)..(MaxVal + MaxOver)
PercentileArgs == 0..(PercentileMax + MaxOver)
\* Permilles: 0, the first and the last permille that selects each rank of a
\* sample of 1..MaxLen elements, and those past the end of the domain.
RankChangesAfter(q) ==
    \E len \in 1..MaxLen :
        (q * len + PermilleMax - 1) \div PermilleMax # ((q + 1) * len + PermilleMax - 1) \div PermilleMax
PermilleArgs ==
    {q \in 0..(PermilleMax + MaxOver) :
        q >= PermilleMax \/ RankChangesAfter(q) \/ (q > 0 /\ RankChangesAfter(q - 1))}
RankArgs == 0..(MaxLen + MaxOver)

\* search is the answer of the binary search inside Ecdf::value (None elsewhere).
Call(op, arg, r) == [op |-> op, arg |-> arg, ret |-> r, search |-> None]

\* The caller is between two calls: no call has been made, or the result of
\* the last one has been consumed. A panic ends the caller.
Idle == Call("idle", 0, None)
Ready == out.op = Idle.op

NoTest == xs = <<>> /\ ys = <<>> /\ confidence = Zero

Init ==
    /\ samples \in Samples
    /\ cached = None
    /\ out = Idle
    /\ frame = None
    /\ NoTest

New ==
    /\ Ready
    /\ cached = None
    /\ LET r == Ecdf_new(samples) IN
       /\ cached' = (IF IsOk(r) THEN r ELSE cached)
       /\ out' = Call("Ecdf::new", 0, r)
    /\ UNCHANGED <<samples, xs, ys, confidence, frame>>

Value ==
    /\ Ready
    /\ IsOk(cached)
    /\ \E t \in QueryValues : \E bs \in binary_search(cached.val.samples, t) :
          out' = [Call("Ecdf::value", t, Ecdf_value(cached.val, t, bs)) EXCEPT !.search = bs]
    /\ UNCHANGED <<samples, cached, xs, ys, confidence, frame>>

Percentile ==
    /\ Ready
    /\ IsOk(cached)
    /\ \E p \in PercentileArgs : out' = Call("Ecdf::percentile", p, Ecdf_percentile(cached.val, p))
    /\ UNCHANGED <<samples, cached, xs, ys, confidence, frame>>

Permille ==
    /\ Ready
    /\ IsOk(cached)
    /\ \E p \in PermilleArgs : out' = Call("Ecdf::permille", p, Ecdf_permille(cached.val, p))
    /\ UNCHANGED <<samples, cached, xs, ys, confidence, frame>>

Rank ==
    /\ Ready
    /\ IsOk(cached)
    /\ \E r \in RankArgs : out' = Call("Ecdf::rank", r, Ecdf_rank(cached.val, r))
    /\ UNCHANGED <<samples, cached, xs, ys, confidence, frame>>

Min ==
    /\ Ready
    /\ IsOk(cached)
    /\ out' = Call("Ecdf::min", 0, Ecdf_min(cached.val))
    /\ UNCHANGED <<samples, cached, xs, ys, confidence, frame>>

Max ==
    /\ Ready
    /\ IsOk(cached)
    /\ out' = Call("Ecdf::max", 0, Ecdf_max(cached.val))
    /\ UNCHANGED <<samples, cached, xs, ys, confidence, frame>>

EcdfOnce ==
    /\ Ready
    /\ \E t \in QueryValues : out' = Call("ecdf", t, ecdf(samples, t))
    /\ UNCHANGED <<samples, cached, xs, ys, confidence, frame>>

PercentileOnce ==
    /\ Ready
    /\ \E p \in PercentileArgs : out' = Call("percentile", p, percentile(samples, p))
    /\ UNCHANGED <<samples, cached, xs, ys, confidence, frame>>

PermilleOnce ==
    /\ Ready
    /\ \E p \in PermilleArgs : out' = Call("permille", p, permille(samples, p))
    /\ UNCHANGED <<samples, cached, xs, ys, confidence, frame>>

RankOnce ==
    /\ Ready
    /\ \E r \in RankArgs : out' = Call("rank", r, rank(samples, r))
    /\ UNCHANGED <<samples, cached, xs, ys, confidence, frame>>

\* The caller takes the returned value and goes on.
Continue ==
    /\ out.ret.status = "ok"
    /\ out' = Idle
    /\ UNCHANGED <<samples, cached, xs, ys, confidence, frame>>

Next ==
    \/ New
    \/ Value
    \/ Percentile
    \/ Permille
    \/ Rank
    \/ Min
    \/ Max
    \/ EcdfOnce
    \/ PercentileOnce
    \/ PermilleOnce
    \/ RankOnce
    \/ Continue

Spec == Init /\ [][Next]_vars

(***************************************************************************)
(* calculate_statistic: the merge sweep over the two sorted copies.        *)
(***************************************************************************)
\* Mutant of SkipDuplicates: the cursor stays on the first of a run of duplicates.
SkipDuplicates_NoSkip(s, i, v) == i

\* while i + 1 < n && *x_i == xs[i + 1] { i += 1 }
RECURSIVE SkipDuplicates(_, _, _)
SkipDuplicates(s, i, v) ==
    IF i + 1 < Len(s) /\ v = At(s, i + 1)
    THEN SkipDuplicates(s, i + 1, v)
    ELSE i

\* Mutant of StepEcdf: the count of the samples is one too many.
StepEcdf_OneTooMany(last, len) == F64Div(last + 2, len)

\* Mutant of StepEcdf: the 0-based index is not compensated.
StepEcdf_OffByOne(last, len) == F64Div(last, len)

\* (i + 1) as f64 / n as f64, for the index of the last duplicate of current
StepEcdf(last, len) == F64Div(last + 1, len)

\* Mutant of SweepStart: the running maximum starts at one.
SweepStart_AtOne ==
    [i |-> 0, j |-> 0, ecdf_xs |-> F64Zero, ecdf_ys |-> F64Zero, statistic |-> F64One]

\* The state of the sweep before its first iteration.
SweepStart ==
    [i |-> 0, j |-> 0, ecdf_xs |-> F64Zero, ecdf_ys |-> F64Zero, statistic |-> F64Zero]

\* Mutant of SweepIter: the last distance is kept instead of the largest.
SweepIter_LastDiff(sx, sy, st) ==
    LET n == Len(sx)
        m == Len(sy)
        x_i == At(sx, st.i)
        i1 == SkipDuplicates(sx, st.i, x_i)
        y_j == At(sy, st.j)
        j1 == SkipDuplicates(sy, st.j, y_j)
        current == IF y_j < x_i THEN y_j ELSE x_i
        ecdf_xs == IF current = x_i THEN StepEcdf(i1, n) ELSE st.ecdf_xs
        i2 == IF current = x_i THEN i1 + 1 ELSE i1
        ecdf_ys == IF current = y_j THEN StepEcdf(j1, m) ELSE st.ecdf_ys
        j2 == IF current = y_j THEN j1 + 1 ELSE j1
        diff == F64AbsDiff(ecdf_xs, ecdf_ys)
    IN [i |-> i2, j |-> j2, ecdf_xs |-> ecdf_xs, ecdf_ys |-> ecdf_ys,
        statistic |-> diff]

\* One iteration of the loop of calculate_statistic; sx, sy are the sorted copies.
SweepIter(sx, sy, st) ==
    LET n == Len(sx)
        m == Len(sy)
        x_i == At(sx, st.i)
        i1 == SkipDuplicates(sx, st.i, x_i)
        y_j == At(sy, st.j)
        j1 == SkipDuplicates(sy, st.j, y_j)
        current == IF y_j < x_i THEN y_j ELSE x_i
        ecdf_xs == IF current = x_i THEN StepEcdf(i1, n) ELSE st.ecdf_xs
        i2 == IF current = x_i THEN i1 + 1 ELSE i1
        ecdf_ys == IF current = y_j THEN StepEcdf(j1, m) ELSE st.ecdf_ys
        j2 == IF current = y_j THEN j1 + 1 ELSE j1
        diff == F64AbsDiff(ecdf_xs, ecdf_ys)
    IN [i |-> i2, j |-> j2, ecdf_xs |-> ecdf_xs, ecdf_ys |-> ecdf_ys,
        statistic |-> IF F64GT(diff, st.statistic) THEN diff ELSE st.statistic]

\* while i < n && j < m { ... }
RECURSIVE SweepLoop(_, _, _)
SweepLoop(sx, sy, st) ==
    IF st.i < Len(sx) /\ st.j < Len(sy)
    THEN SweepLoop(sx, sy, SweepIter(sx, sy, st))
    ELSE st

calculate_statistic(a, b) ==
    LET n == Len(a)
        m == Len(b)
    IN IF ~(n > 0 /\ m > 0) THEN Panic("n > 0 && m > 0")
       ELSE Ok(SweepLoop(Sort(a), Sort(b), SweepStart).statistic)

(***************************************************************************)
(* calculate_critical_value: 1.36 * sqrt((n1 + n2) / (n1 * n2)) in f64.    *)
(***************************************************************************)
\* The decimal literal 1.36 = 34 / 25
CritNum == 34
CritDen == 25

\* The f64 the literal 1.36 stands for: the nearest to 34 / 25.
CriticalFactor == F64Div(CritNum, CritDen)

\* The only supported confidence level.
Confidence95 == Rat(19, 20)

\* n1 + n2 and n1 * n2 are exact in f64 for the sizes the division is
\* defined for (n1 * n2 < 2^30).
calculate_critical_value(n1, n2, conf) ==
    IF ~(n1 > 0 /\ n2 > 0) THEN Panic("n1 > 0 && n2 > 0")
    ELSE IF ~(RatGT(conf, Zero) /\ RatGT(One, conf))
    THEN Panic("0.0 < confidence && confidence < 1.0")
    ELSE IF ~(n1 > MinSize /\ n2 > MinSize) THEN Panic("n1 > 12 && n2 > 12")
    ELSE IF conf # Confidence95 THEN Panic("confidence == 0.95")
    ELSE LET factor == F64Div(n1 + n2, n1 * n2)
         IN Ok(F64Mul(CriticalFactor, F64Sqrt(factor)))

\* Mutant of ExceedsCritical: statistic >= critical_value
ExceedsCritical_OrEqual(statistic, critical_value) == ~F64GT(critical_value, statistic)

\* statistic > critical_value
ExceedsCritical(statistic, critical_value) == F64GT(statistic, critical_value)

(***************************************************************************)
(* test                                                                    *)
(***************************************************************************)
\* The TestResult that test builds from what its two calls return; a panic of
\* one of the calls is the panic of test.
TestResult(statistic, critical_value, conf) ==
    IF ~IsOk(statistic) THEN statistic
    ELSE IF ~IsOk(critical_value) THEN critical_value
    ELSE Ok([is_rejected |-> ExceedsCritical(statistic.val, critical_value.val),
             statistic |-> statistic.val,
             critical_value |-> critical_value.val,
             confidence |-> conf])

\* Mutant of test: the sample sizes are checked before everything else.
test_SizeFirst(a, b, conf) ==
    IF ~(Len(a) > MinSize /\ Len(b) > MinSize)
    THEN Panic("xs.len() > 12 && ys.len() > 12")
    ELSE IF ~(RatGT(conf, Zero) /\ RatGT(One, conf))
    THEN Panic("0.0 < confidence && confidence < 1.0")
    ELSE IF conf # Confidence95 THEN Panic("confidence == 0.95")
    ELSE TestResult(calculate_statistic(a, b),
                    calculate_critical_value(Len(a), Len(b), conf), conf)

test(a, b, conf) ==
    IF ~(Len(a) > 0 /\ Len(b) > 0) THEN Panic("xs.len() > 0 && ys.len() > 0")
    ELSE IF ~(RatGT(conf, Zero) /\ RatGT(One, conf))
    THEN Panic("0.0 < confidence && confidence < 1.0")
    ELSE IF ~(Len(a) > MinSize /\ Len(b) > MinSize)
    THEN Panic("xs.len() > 12 && ys.len() > 12")
    ELSE IF conf # Confidence95 THEN Panic("confidence == 0.95")
    ELSE TestResult(calculate_statistic(a, b),
                    calculate_critical_value(Len(a), Len(b), conf), conf)

(***************************************************************************)
(* The two sample test: a caller holds two samples and a confidence level  *)
(* and calls test.                                                         *)
(***************************************************************************)
\* The first len values of seed repeated over and over.
Cycle(seed, len) == [k \in 1..len |-> seed[((k - 1) % Len(seed)) + 1]]

Seeds == SeqsOf(Values, 1, MaxSeedLen)

\* Lengths of the samples: empty, too small (1 and MinSize), and valid.
TestLens == {0, 1, MinSize} \cup ((MinSize + 1)..(MinSize + MaxExtra))

TestSamples == {Cycle(seed, len) : seed \in Seeds, len \in TestLens}

\* 0.0, 0.5, 0.95, 1.0
Confidences == {Zero, Rat(1, 2), Confidence95, One}

NoEcdf == samples = <<>> /\ cached = None

\* Sizes of two samples whose critical value is a value their statistic can
\* take: 1.36 * sqrt(625 / 62500) = 0.136 = 68 / 500.
BoundaryFirst == 125
BoundarySecond == 500
BoundaryLows == 68

\* The first sample at the boundary: runs of 5 equal values, from the value
\* 4 up, in descending order.
BoundaryXs == [k \in 1..BoundaryFirst |-> 4 + ((BoundaryFirst - k) \div 5)]

\* A second sample at the boundary: lows values below every value of the
\* first sample, the others spread evenly over the values of the first.
BoundaryYs(lows) ==
    [k \in 1..BoundarySecond |->
        IF k <= lows THEN (k - 1) \div 18
        ELSE 4 + (((k - lows - 1) * 25) \div (BoundarySecond - lows))]

\* Second samples whose statistic is one step below the critical value, on
\* it, and one step above.
BoundarySamples == {BoundaryYs(lows) : lows \in (BoundaryLows - 1)..(BoundaryLows + 1)}

InitTest ==
    /\ \/ /\ xs \in TestSamples
          /\ ys \in TestSamples
          /\ confidence \in Confidences
       \/ /\ xs = BoundaryXs
          /\ ys \in BoundarySamples
          /\ confidence = Confidence95
    /\ out = Idle
    /\ frame = None
    /\ NoEcdf

Test ==
    /\ Ready
    /\ out' = Call("test", 0, test(xs, ys, confidence))
    /\ UNCHANGED <<samples, cached, xs, ys, confidence, frame>>

NextTest ==
    \/ Test
    \/ Continue

SpecTest == InitTest /\ [][NextTest]_vars

(***************************************************************************)
(* Machine integers: the arithmetic of the callers on the sample values.   *)
(***************************************************************************)
\* The unsigned and the signed integer type of IntBits bits.
IntTypes ==
    {[min |-> 0, max |-> 2^IntBits - 1],
     [min |-> 0 - 2^(IntBits - 1), max |-> 2^(IntBits - 1) - 1]}

\* Mutant of WrappingSub: the difference saturates at the ends of the type.
WrappingSub_Saturating(ty, a, b) ==
    LET d == a - b IN
    IF d < ty.min THEN ty.min ELSE IF d > ty.max THEN ty.max ELSE d

\* a - b modulo 2^IntBits, in the range of the type
WrappingSub(ty, a, b) ==
    LET d == a - b IN
    IF d < ty.min THEN d + 2^IntBits ELSE IF d > ty.max THEN d - 2^IntBits ELSE d

\* a - b in the type ty: the difference when the type holds it; otherwise a
\* panic in a build with overflow checks and the wrapped difference in a
\* build without them.
Sub(ty, a, b) ==
    IF a - b \in ty.min..ty.max THEN {Ok(a - b)}
    ELSE {Panic("attempt to subtract with overflow"), Ok(WrappingSub(ty, a, b))}

\* a + b modulo 2^IntBits, in the range of the type
WrappingAdd(ty, a, b) == WrappingSub(ty, a, 0 - b)

\* The type of the samples of the tests (u64 in the source).
SampleType == [min |-> 0, max |-> 2^IntBits - 1]

(***************************************************************************)
(* The two sample test on a valid sample xs and a copy of it with values   *)
(* added below its minimum and above its maximum.                          *)
(***************************************************************************)
MinOf(s) == CHOOSE v \in {s[k] : k \in 1..Len(s)} : \A k \in 1..Len(s) : v <= s[k]
MaxOf(s) == CHOOSE v \in {s[k] : k \in 1..Len(s)} : \A k \in 1..Len(s) : v >= s[k]

\* for j in 0..n { ys.vec.push(min - (j as u64) - 1) }: what the loop returns
\* and the values it has pushed by then. When the type holds every
\* difference, all n values; otherwise, in a build with overflow checks, a
\* panic at the first difference the type does not hold, after the pushes
\* before it, and in a build without them the wrapped differences.
Lows(min, n) ==
    LET exact == [k \in 1..n |-> min - (k - 1) - 1]
        done == Cardinality({k \in 1..n : \A i \in 1..k : exact[i] >= SampleType.min})
    IN IF done = n THEN {[ret |-> Ok(exact), pushed |-> exact]}
       ELSE {[ret |-> Panic("attempt to subtract with overflow"),
              pushed |-> SubSeq(exact, 1, done)],
             LET wrapped == [k \in 1..n |->
                     WrappingSub(SampleType, WrappingSub(SampleType, min, k - 1), 1)]
             IN [ret |-> Ok(wrapped), pushed |-> wrapped]}

\* for j in 0..m { ys.vec.push(max + (j as u64) + 1) }, in the same way
Highs(max, m) ==
    LET exact == [k \in 1..m |-> max + (k - 1) + 1]
        done == Cardinality({k \in 1..m : \A i \in 1..k : exact[i] <= SampleType.max})
    IN IF done = m THEN {[ret |-> Ok(exact), pushed |-> exact]}
       ELSE {[ret |-> Panic("attempt to add with overflow"),
              pushed |-> SubSeq(exact, 1, done)],
             LET wrapped == [k \in 1..m |->
                     WrappingAdd(SampleType, WrappingAdd(SampleType, max, k - 1), 1)]
             IN [ret |-> Ok(wrapped), pushed |-> wrapped]}

\* Valid samples of values at the low end and at the high end of the type.
ExtremeSamples ==
    {[k \in 1..len |-> Cycle(seed, len)[k] + base] :
        seed \in Seeds, len \in (MinSize + 1)..(MinSize + MaxExtra),
        base \in {SampleType.min, SampleType.max - MaxVal}}

InitExtremes ==
    /\ xs \in ExtremeSamples
    /\ ys = xs
    /\ confidence = Confidence95
    /\ out = Idle
    /\ frame = None
    /\ NoEcdf

\* let mut ys = xs.clone(); n pushes below the minimum and m pushes above the
\* maximum; test(&xs.vec, &ys.vec, 0.95). A panic of a push leaves ys with
\* the values pushed before it.
TestExtremes ==
    /\ Ready
    /\ ys = xs
    /\ \E n \in 0..MaxAdded, m \in 0..MaxAdded :
          \E lows \in Lows(MinOf(xs), n), highs \in Highs(MaxOf(xs), m) :
             IF ~IsOk(lows.ret)
             THEN /\ out' = Call("min - (j as u64) - 1", n, lows.ret)
                  /\ ys' = xs \o lows.pushed
             ELSE IF ~IsOk(highs.ret)
             THEN /\ out' = Call("max + (j as u64) + 1", m, highs.ret)
                  /\ ys' = xs \o lows.pushed \o highs.pushed
             ELSE /\ ys' = xs \o lows.pushed \o highs.pushed
                  /\ out' = Call("test", 0, test(xs, xs \o lows.pushed \o highs.pushed, confidence))
    /\ UNCHANGED <<samples, cached, xs, confidence, frame>>

NextExtremes ==
    \/ TestExtremes
    \/ Continue

SpecExtremes == InitExtremes /\ [][NextExtremes]_vars

(***************************************************************************)
(* The statistic alone, on every pair of small samples.                    *)
(***************************************************************************)
StatSamples == SeqsOf(Values, 0, MaxStatLen)

InitStat ==
    /\ xs \in StatSamples
    /\ ys \in StatSamples
    /\ confidence = Zero
    /\ out = Idle
    /\ frame = None
    /\ NoEcdf

CalculateStatistic ==
    /\ Ready
    /\ out' = Call("calculate_statistic", 0, calculate_statistic(xs, ys))
    /\ UNCHANGED <<samples, cached, xs, ys, confidence, frame>>

NextStat ==
    \/ CalculateStatistic
    \/ Continue

SpecStat == InitStat /\ [][NextStat]_vars

(***************************************************************************)
(* A caller whose sample is empty: samples for the order statistics, and   *)
(* xs or ys (or both) for the two sample test.                             *)
(***************************************************************************)
InitEmpty ==
    /\ samples = <<>>
    /\ cached = None
    /\ xs \in TestSamples
    /\ ys \in TestSamples
    /\ (xs = <<>> \/ ys = <<>>)
    /\ confidence = Confidence95
    /\ out = Idle
    /\ frame = None

NextEmpty ==
    \/ New
    \/ EcdfOnce
    \/ PercentileOnce
    \/ PermilleOnce
    \/ RankOnce
    \/ Test

SpecEmpty == InitEmpty /\ [][NextEmpty]_vars

(***************************************************************************)
(* A caller that keeps its sequences across the calls of the one-shot      *)
(* order statistics (on xs) and of the two sample test (on xs and ys), one *)
(* step of a call at a time. The memory of a call is the caller's two      *)
(* sequences and the vectors the call owns; a local name of the call       *)
(* (samples in rank, xs and ys in calculate_statistic) is bound to one of  *)
(* these places and every swap and sort is a write to the place the name   *)
(* is bound to. frame holds the locals of the call in progress: the places *)
(* of its names, the window of rank, and its vectors, which are dropped    *)
(* when the call returns.                                                  *)
(***************************************************************************)
\* The memory before a call: the caller's sequences, no vector yet.
CallerMemory == [xs |-> xs, ys |-> ys, vec_xs |-> <<>>, vec_ys |-> <<>>]

\* The memory during a call.
Memory == [xs |-> xs, ys |-> ys, vec_xs |-> frame.vec_xs, vec_ys |-> frame.vec_ys]

\* Mutant of to_vec: no vector is made and the name stays bound to the
\* borrowed slice.
to_vec_Borrowed(mem, src, dst) == [at |-> src, mem |-> mem]

\* src.to_vec(): the vector dst with a clone of every element of src; the
\* name is bound to dst.
to_vec(mem, src, dst) == [at |-> dst, mem |-> [mem EXCEPT ![dst] = mem[src]]]

\* A write of the elements s to the place a name is bound to.
Write(mem, at, s) == [mem EXCEPT ![at] = s]

\* The caller's sequences and the vectors of the frame are those of mem.
Commit(mem, locals) ==
    /\ xs' = mem.xs
    /\ ys' = mem.ys
    /\ frame' = [locals EXCEPT !.vec_xs = mem.vec_xs, !.vec_ys = mem.vec_ys]

\* The call returns or panics: its vectors are dropped.
Leave(mem, call) ==
    /\ xs' = mem.xs
    /\ ys' = mem.ys
    /\ frame' = None
    /\ out' = call

CopiesFrame(pc, a, b, r, high) ==
    [pc |-> pc, xs |-> a, ys |-> b, rank |-> r, low |-> 0, high |-> high,
     vec_xs |-> <<>>, vec_ys |-> <<>>]

\* rank(&xs, r) up to its loop, for the caller op (rank itself, percentile
\* or permille): let mut samples: Vec<T> = samples.to_vec()
CallRank(op, arg, r) ==
    LET length == Len(xs) IN
    IF ~(length > 0) THEN Leave(CallerMemory, Call(op, arg, Panic("length > 0")))
    ELSE IF ~(0 < r /\ r <= length)
    THEN Leave(CallerMemory, Call(op, arg, Panic("0 < rank && rank <= length")))
    ELSE LET samples_ == to_vec(CallerMemory, "xs", "vec_xs")
         IN /\ Commit(samples_.mem, CopiesFrame("select", samples_.at, "ys", r, length))
            /\ out' = Call(op, arg, None)

RankCopies ==
    /\ Ready
    /\ \E r \in 0..(Len(xs) + MaxOver) : CallRank("rank", r, r)
    /\ UNCHANGED <<samples, cached, confidence>>

\* The asserts of percentile and of permille and their call of rank.
CallQuantile(op, p, max, msg) ==
    IF ~(0 < p /\ p <= max) THEN Leave(CallerMemory, Call(op, p, Panic(msg)))
    ELSE IF ~(Len(xs) > 0) THEN Leave(CallerMemory, Call(op, p, Panic("length > 0")))
    ELSE CallRank(op, p, CeilDiv(p * Len(xs), max))

PercentileCopies ==
    /\ Ready
    /\ \E p \in PercentileArgs :
          CallQuantile("percentile", p, PercentileMax, "0 < p && p <= 100")
    /\ UNCHANGED <<samples, cached, confidence>>

PermilleCopies ==
    /\ Ready
    /\ \E p \in PermilleArgs :
          CallQuantile("permille", p, PermilleMax, "0 < p && p <= 1000")
    /\ UNCHANGED <<samples, cached, confidence>>

\* One iteration of the loop of rank: its swaps are writes to the place of
\* samples; a return ends the call.
SelectCopies ==
    /\ frame # None
    /\ frame.pc = "select"
    /\ LET st == RankIter(SelectState(Memory[frame.xs], frame.low, frame.high), frame.rank)
           mem == Write(Memory, frame.xs, st.samples)
       IN IF st.done THEN Leave(mem, [out EXCEPT !.ret = st.ret])
          ELSE /\ Commit(mem, [frame EXCEPT !.low = st.low, !.high = st.high])
               /\ UNCHANGED out
    /\ UNCHANGED <<samples, cached, confidence>>

\* calculate_statistic(&xs, &ys) up to its sorts, for the caller op
\* (calculate_statistic itself or test): xs.to_vec(), ys.to_vec()
CallStatistic(op) ==
    IF ~(Len(xs) > 0 /\ Len(ys) > 0)
    THEN Leave(CallerMemory, Call(op, 0, Panic("n > 0 && m > 0")))
    ELSE LET xs_ == to_vec(CallerMemory, "xs", "vec_xs")
             ys_ == to_vec(xs_.mem, "ys", "vec_ys")
         IN /\ Commit(ys_.mem, CopiesFrame("sort", xs_.at, ys_.at, 0, 0))
            /\ out' = Call(op, 0, None)

CalculateStatisticCopies ==
    /\ Ready
    /\ CallStatistic("calculate_statistic")
    /\ UNCHANGED <<samples, cached, confidence>>

\* The asserts of test and its call of calculate_statistic.
TestCopies ==
    /\ Ready
    /\ IF ~(Len(xs) > 0 /\ Len(ys) > 0)
       THEN Leave(CallerMemory, Call("test", 0, Panic("xs.len() > 0 && ys.len() > 0")))
       ELSE IF ~(RatGT(confidence, Zero) /\ RatGT(One, confidence))
       THEN Leave(CallerMemory, Call("test", 0, Panic("0.0 < confidence && confidence < 1.0")))
       ELSE IF ~(Len(xs) > MinSize /\ Len(ys) > MinSize)
       THEN Leave(CallerMemory, Call("test", 0, Panic("xs.len() > 12 && ys.len() > 12")))
       ELSE IF confidence # Confidence95
       THEN Leave(CallerMemory, Call("test", 0, Panic("confidence == 0.95")))
       ELSE CallStatistic("test")
    /\ UNCHANGED <<samples, cached, confidence>>

\* xs.sort(); ys.sort(): writes to the places of xs and of ys.
SortCopies ==
    /\ frame # None
    /\ frame.pc = "sort"
    /\ LET sorted_xs == Write(Memory, frame.xs, Sort(Memory[frame.xs]))
           sorted_ys == Write(sorted_xs, frame.ys, Sort(sorted_xs[frame.ys]))
       IN Commit(sorted_ys, [frame EXCEPT !.pc = "sweep"])
    /\ UNCHANGED <<samples, cached, confidence, out>>

\* The loop of calculate_statistic over what its names are bound to, and the
\* return; in test, the critical value of the sizes of the caller's slices
\* and the TestResult.
SweepCopies ==
    /\ frame # None
    /\ frame.pc = "sweep"
    /\ LET statistic == Ok(SweepLoop(Memory[frame.xs], Memory[frame.ys], SweepStart).statistic)
       IN Leave(Memory,
                [out EXCEPT !.ret =
                    IF out.op = "test"
                    THEN TestResult(statistic,
                                    calculate_critical_value(Len(xs), Len(ys), confidence),
                                    confidence)
                    ELSE statistic])
    /\ UNCHANGED <<samples, cached, confidence>>

\* The second sample of the caller: none, or one of the smallest valid size.
SecondSamples ==
    {<<>>} \cup {Cycle(seed, MinSize + 1) : seed \in SeqsOf(0..MaxShuffleVal, 2, 2)}

InitCopies ==
    /\ xs \in TestSamples
    /\ ys \in SecondSamples
    /\ confidence = Confidence95
    /\ out = Idle
    /\ frame = None
    /\ NoEcdf

NextCopies ==
    \/ RankCopies
    \/ PercentileCopies
    \/ PermilleCopies
    \/ SelectCopies
    \/ CalculateStatisticCopies
    \/ TestCopies
    \/ SortCopies
    \/ SweepCopies
    \/ Continue

SpecCopies == InitCopies /\ [][NextCopies]_vars

(***************************************************************************)
(* A caller that asks for the ECDF just below the minimum of its sample:   *)
(* t = min - 1 in the arithmetic of the sample type, then ecdf(xs, t) or   *)
(* Ecdf::new(xs).value(t).                                                 *)
(***************************************************************************)
\* Non-empty samples of the values at the low end of each type.
IntSamples == UNION {SeqsOf(ty.min..(ty.min + MaxVal), 1, MaxLen) : ty \in IntTypes}

InitBelowMin ==
    /\ samples \in IntSamples
    /\ cached = None
    /\ out = Idle
    /\ frame = None
    /\ NoTest

\* ecdf(&xs.vec, min - 1)
EcdfBelowMin ==
    /\ Ready
    /\ LET min == MinOf(samples)
       IN \E ty \in IntTypes :
             /\ \A k \in 1..Len(samples) : samples[k] \in ty.min..ty.max
             /\ \E t \in Sub(ty, min, 1) :
                    out' = IF IsOk(t) THEN Call("ecdf", t.val, ecdf(samples, t.val))
                           ELSE Call("min - 1", min, t)
    /\ UNCHANGED <<samples, cached, xs, ys, confidence, frame>>

\* ecdf.value(min - 1)
ValueBelowMin ==
    /\ Ready
    /\ IsOk(cached)
    /\ LET min == MinOf(samples)
       IN \E ty \in IntTypes :
             /\ \A k \in 1..Len(samples) : samples[k] \in ty.min..ty.max
             /\ \E t \in Sub(ty, min, 1) :
                    IF IsOk(t)
                    THEN \E bs \in binary_search(cached.val.samples, t.val) :
                            out' = [Call("Ecdf::value", t.val, Ecdf_value(cached.val, t.val, bs))
                                        EXCEPT !.search = bs]
                    ELSE out' = Call("min - 1", min, t)
    /\ UNCHANGED <<samples, cached, xs, ys, confidence, frame>>

NextBelowMin ==
    \/ New
    \/ EcdfBelowMin
    \/ ValueBelowMin
    \/ Continue

SpecBelowMin == InitBelowMin /\ [][NextBelowMin]_vars

(***************************************************************************)
(* The loop of rank, one step at a time. frame holds the locals of the     *)
(* call of rank in progress (None when no call is in progress): the        *)
(* working copy, the window [low, high), the pivot and the two cursors.    *)
(* entry is the window at the top of the current iteration; the source has *)
(* no such local, the properties use it to compare an iteration's window   *)
(* with the next one's.                                                    *)
(***************************************************************************)
\* let mut samples = samples.to_vec(); let mut low = 0; let mut high = length;
SelectFrame(smp, r) ==
    [pc |-> "loop", rank |-> r, samples |-> smp, low |-> 0, high |-> Len(smp),
     pivot |-> None, bottom |-> 0, top |-> 0, entry |-> <<0, Len(smp)>>]

Selecting == frame # None

\* Mutant of ExcludeSmaller: low is left where it was.
ExcludeSmaller_KeepLow(f) == f

\* low = bottom
ExcludeSmaller(f) == [f EXCEPT !.low = f.bottom]

\* Mutant of ExcludeLarger: the window ends one item before bottom.
ExcludeLarger_OneLess(f) == [f EXCEPT !.high = f.bottom - 1]

\* high = bottom
ExcludeLarger(f) == [f EXCEPT !.high = f.bottom]

\* return from rank (with a value or by a panic): the frame is gone.
SelectLeave(r) ==
    /\ out' = [out EXCEPT !.ret = r]
    /\ frame' = None

\* The call of rank up to its loop.
RankEnter ==
    /\ Ready
    /\ \E r \in RankArgs :
          LET length == Len(samples) IN
          IF ~(length > 0)
          THEN out' = Call("rank", r, Panic("length > 0")) /\ frame' = None
          ELSE IF ~(0 < r /\ r <= length)
          THEN out' = Call("rank", r, Panic("0 < rank && rank <= length")) /\ frame' = None
          ELSE out' = Call("rank", r, None) /\ frame' = SelectFrame(samples, r)
    /\ UNCHANGED <<samples, cached, xs, ys, confidence>>

\* The top of the loop: the assertion, the pivot, the window of one element.
LoopTop ==
    /\ Selecting
    /\ frame.pc = "loop"
    /\ IF ~(frame.low < frame.high) THEN SelectLeave(Panic("low < high"))
       ELSE LET pivot == At(frame.samples, frame.low) IN
            IF frame.low >= frame.high - 1 THEN SelectLeave(Ok(pivot))
            ELSE /\ frame' = [frame EXCEPT !.pc = "partition1", !.pivot = pivot,
                                           !.bottom = frame.low, !.top = frame.high - 1,
                                           !.entry = <<frame.low, frame.high>>]
                 /\ UNCHANGED out
    /\ UNCHANGED <<samples, cached, xs, ys, confidence>>

\* The first partition, to the end of its while loop.
FirstPartition ==
    /\ Selecting
    /\ frame.pc = "partition1"
    /\ LET p == Partition1(frame.samples, frame.bottom, frame.top, frame.pivot) IN
       frame' = [frame EXCEPT !.pc = "decide1", !.samples = p.samples,
                              !.bottom = p.bottom, !.top = p.top]
    /\ UNCHANGED <<samples, cached, xs, ys, confidence, out>>

\* if rank <= bottom { high = bottom } else { low = bottom; ... }
FirstDecision ==
    /\ Selecting
    /\ frame.pc = "decide1"
    /\ IF frame.rank <= frame.bottom
       THEN frame' = [ExcludeLarger(frame) EXCEPT !.pc = "loop"]
       ELSE frame' = [ExcludeSmaller(frame) EXCEPT !.pc = "partition2", !.top = frame.high - 1]
    /\ UNCHANGED <<samples, cached, xs, ys, confidence, out>>

\* The second partition, to the end of its while loop.
SecondPartition ==
    /\ Selecting
    /\ frame.pc = "partition2"
    /\ LET p == Partition2(frame.samples, frame.bottom, frame.top, frame.pivot) IN
       frame' = [frame EXCEPT !.pc = "decide2", !.samples = p.samples,
                              !.bottom = p.bottom, !.top = p.top]
    /\ UNCHANGED <<samples, cached, xs, ys, confidence, out>>

\* if rank <= bottom { return pivot; } low = bottom;
SecondDecision ==
    /\ Selecting
    /\ frame.pc = "decide2"
    /\ IF frame.rank <= frame.bottom
       THEN SelectLeave(Ok(frame.pivot))
       ELSE /\ frame' = [ExcludeSmaller(frame) EXCEPT !.pc = "loop"]
            /\ UNCHANGED out
    /\ UNCHANGED <<samples, cached, xs, ys, confidence>>

NextSelect ==
    \/ RankEnter
    \/ LoopTop
    \/ FirstPartition
    \/ FirstDecision
    \/ SecondPartition
    \/ SecondDecision
    \/ Continue

SpecSelect == Init /\ [][NextSelect]_vars

\* A call of rank in progress is not suspended for ever: the code is
\* sequential and every step of it is taken.
SpecSelectLive == SpecSelect /\ WF_vars(NextSelect)

(***************************************************************************)
(* The loop of calculate_statistic, one iteration at a time. frame holds   *)
(* the locals of the call in progress: the two sorted copies, the cursors, *)
(* the running ECDFs and the running maximum (sweep), and current, which   *)
(* has no value before the first iteration.                                *)
(***************************************************************************)
\* xs.to_vec(), ys.to_vec(), sort(), and the locals before the loop.
SweepFrame(a, b) ==
    [pc |-> "sweep", xs |-> Sort(a), ys |-> Sort(b), current |-> None, sweep |-> SweepStart]

Sweeping == frame # None /\ frame.pc = "sweep"

\* Mutant of SweepGuard: the loop stops one element before the end.
SweepGuard_StopsEarly(f) ==
    f.sweep.i + 1 < Len(f.xs) /\ f.sweep.j + 1 < Len(f.ys)

\* while i < n && j < m
SweepGuard(f) == f.sweep.i < Len(f.xs) /\ f.sweep.j < Len(f.ys)

\* current = min(x_i, y_j)
SweepCurrent(f) ==
    LET x_i == At(f.xs, f.sweep.i)
        y_j == At(f.ys, f.sweep.j)
    IN IF y_j < x_i THEN y_j ELSE x_i

InitSweep ==
    /\ xs \in StatSamples
    /\ ys \in StatSamples
    /\ confidence = Zero
    /\ out = Idle
    /\ frame = None
    /\ NoEcdf

\* The call of calculate_statistic up to its loop.
StatisticEnter ==
    /\ Ready
    /\ IF ~(Len(xs) > 0 /\ Len(ys) > 0)
       THEN out' = Call("calculate_statistic", 0, Panic("n > 0 && m > 0")) /\ frame' = None
       ELSE out' = Call("calculate_statistic", 0, None) /\ frame' = SweepFrame(xs, ys)
    /\ UNCHANGED <<samples, cached, xs, ys, confidence>>

\* One iteration of the loop.
SweepStep ==
    /\ Sweeping
    /\ SweepGuard(frame)
    /\ frame' = [frame EXCEPT !.current = Ok(SweepCurrent(frame)),
                              !.sweep = SweepIter(frame.xs, frame.ys, frame.sweep)]
    /\ UNCHANGED <<samples, cached, xs, ys, confidence, out>>

\* The loop is left and the statistic returned.
SweepExit ==
    /\ Sweeping
    /\ ~SweepGuard(frame)
    /\ out' = [out EXCEPT !.ret = Ok(frame.sweep.statistic)]
    /\ frame' = None
    /\ UNCHANGED <<samples, cached, xs, ys, confidence>>

NextSweep ==
    \/ StatisticEnter
    \/ SweepStep
    \/ SweepExit
    \/ Continue

SpecSweep == InitSweep /\ [][NextSweep]_vars

(***************************************************************************)
(* A caller that rearranges its samples between calls of                   *)
(* calculate_statistic: it exchanges two elements of a sample (a shuffle   *)
(* is a sequence of exchanges) or passes the two samples the other way     *)
(* round.                                                                  *)
(***************************************************************************)
\* The last call of calculate_statistic has returned its statistic.
StatisticReturned == out.op = "calculate_statistic" /\ IsOk(out.ret)

\* s with two of its elements exchanged.
Exchanges(s) == {Swap(s, a, b) : a, b \in 0..(Len(s) - 1)} \ {s}

ShuffleXs ==
    /\ StatisticReturned
    /\ \E p \in Exchanges(xs) :
          /\ xs' = p
          /\ out' = Call("calculate_statistic", 0, calculate_statistic(p, ys))
    /\ UNCHANGED <<samples, cached, ys, confidence, frame>>

ShuffleYs ==
    /\ StatisticReturned
    /\ \E p \in Exchanges(ys) :
          /\ ys' = p
          /\ out' = Call("calculate_statistic", 0, calculate_statistic(xs, p))
    /\ UNCHANGED <<samples, cached, xs, confidence, frame>>

SwapSamples ==
    /\ StatisticReturned
    /\ xs' = ys
    /\ ys' = xs
    /\ out' = Call("calculate_statistic", 0, calculate_statistic(ys, xs))
    /\ UNCHANGED <<samples, cached, confidence, frame>>

\* The samples of the caller that rearranges them.
ShuffleSamples == SeqsOf(0..MaxShuffleVal, 0, MaxStatLen)

InitShuffle ==
    /\ xs \in ShuffleSamples
    /\ ys \in ShuffleSamples
    /\ confidence = Zero
    /\ out = Idle
    /\ frame = None
    /\ NoEcdf

NextShuffle ==
    \/ CalculateStatistic
    \/ ShuffleXs
    \/ ShuffleYs
    \/ SwapSamples

SpecShuffle == InitShuffle /\ [][NextShuffle]_vars

(***************************************************************************)
(* The critical_values program: main parses its three arguments, checks    *)
(* them and prints one row for every size from FirstSize to limit. frame   *)
(* holds the locals of main while it runs, and printed, the rows written   *)
(* so far.                                                                 *)
(***************************************************************************)
\* for n2 in 16..(limit + 1)
FirstSize == 16

\* The largest usize, for a usize of IntBits bits.
UsizeMax == 2^IntBits - 1

\* limit + 1 in usize: the sum when the type holds it; otherwise a panic in a
\* build with overflow checks and 0 in a build without them.
LimitPlusOne(limit) ==
    IF limit + 1 <= UsizeMax THEN {Ok(limit + 1)}
    ELSE {Panic("attempt to add with overflow"), Ok(0)}

\* Arguments that parse: <confidence>, <num_samples>, <limit>.
NumSamplesArgs == {0, 1, MinSize, MinSize + 1, MinSize + MaxExtra}
LimitArgs == {0, 1, FirstSize - 1, UsizeMax} \cup (FirstSize..(FirstSize + MaxExtra))
MainArgs ==
    {[confidence |-> c, num_samples |-> n, limit |-> l] :
        c \in Confidences, n \in NumSamplesArgs, l \in LimitArgs}

InMain == frame # None /\ frame.pc = "rows"

\* main ends (it returns, or a panic aborts it) with these rows printed.
MainLeave(r) ==
    /\ out' = [out EXCEPT !.ret = r]
    /\ frame' = None

\* main up to its loop: the two assertions, the header, the range.
MainEnter ==
    /\ Ready
    /\ \E args \in MainArgs : \E end \in LimitPlusOne(args.limit) :
          LET call == Call("critical_values", args, None) IN
          IF ~(args.num_samples > 0 /\ args.limit > 0)
          THEN out' = [call EXCEPT !.ret = Panic("n1 > 0 && limit > 0")] /\ frame' = None
          ELSE IF ~(RatGT(args.confidence, Zero) /\ RatGT(One, args.confidence))
          THEN out' = [call EXCEPT !.ret = Panic("0.0 < confidence && confidence < 1.0")]
               /\ frame' = None
          ELSE IF ~IsOk(end)
          THEN out' = [call EXCEPT !.ret = end] /\ frame' = None
          ELSE /\ out' = call
               /\ frame' = [pc |-> "rows", n1 |-> args.num_samples, n2 |-> FirstSize,
                            end |-> end.val, confidence |-> args.confidence,
                            printed |-> <<>>]
    /\ UNCHANGED <<samples, cached, xs, ys, confidence>>

\* One turn of the loop: the critical value is calculated and its row printed.
PrintRow ==
    /\ InMain
    /\ frame.n2 < frame.end
    /\ LET critical_value == calculate_critical_value(frame.n1, frame.n2, frame.confidence) IN
       IF ~IsOk(critical_value) THEN MainLeave(critical_value)
       ELSE /\ frame' = [frame EXCEPT
                            !.n2 = frame.n2 + 1,
                            !.printed = Append(frame.printed,
                                [n1 |-> frame.n1, n2 |-> frame.n2,
                                 confidence |-> frame.confidence,
                                 critical_value |-> critical_value.val])]
            /\ UNCHANGED out
    /\ UNCHANGED <<samples, cached, xs, ys, confidence>>

\* The range is exhausted: main returns.
MainExit ==
    /\ InMain
    /\ ~(frame.n2 < frame.end)
    /\ MainLeave(Ok(frame.printed))
    /\ UNCHANGED <<samples, cached, xs, ys, confidence>>

NextCritical ==
    \/ MainEnter
    \/ PrintRow
    \/ MainExit
    \/ Continue

\* The program has no samples: only its arguments.
InitCritical ==
    /\ NoEcdf
    /\ NoTest
    /\ out = Idle
    /\ frame = None

SpecCritical == InitCritical /\ [][NextCritical]_vars

(***************************************************************************)
(* Properties.                                                             *)
(***************************************************************************)
Range(s) == {s[k] : k \in 1..Len(s)}

\* The number of elements of s that are less than v, at most v, equal to v.
NumLess(s, v) == Cardinality({k \in 1..Len(s) : s[k] < v})
NumLeq(s, v) == Cardinality({k \in 1..Len(s) : s[k] <= v})
NumEq(s, v) == Cardinality({k \in 1..Len(s) : s[k] = v})

\* The fraction of s that is at most v, as the f64 quotient of the two counts.
Fraction(s, v) == F64Div(NumLeq(s, v), Len(s))

\* The same fraction as a real number.
RealFraction(s, v) == Rat(NumLeq(s, v), Len(s))

\* The largest distance of the two real ECDFs over the points of a and b.
RealStatistic(a, b) ==
    LET diffs == {RatAbsDiff(RealFraction(a, v), RealFraction(b, v)) : v \in Range(a) \cup Range(b)}
    IN CHOOSE d \in diffs : \A o \in diffs : RatLE(o, d)

\* v is the element at 1-indexed rank r of the ascending order of s.
IsRankElement(s, r, v) == v \in Range(s) /\ NumLess(s, v) < r /\ r <= NumLeq(s, v)

HasDuplicates(s) == \E a, b \in 1..Len(s) : a # b /\ s[a] = s[b]

IsPermutation(a, b) ==
    Len(a) = Len(b) /\ \A v \in Range(a) \cup Range(b) : NumEq(a, v) = NumEq(b, v)

Returned(op) == out.op = op /\ IsOk(out.ret)
Aborted == out.ret.status = "panic"

\* Every value the cached structure of smp can report for v, over the
\* answers the binary search may give.
CachedValues(smp, v) ==
    LET e == Ecdf_new(smp).val IN
    {Ecdf_value(e, v, bs).val : bs \in binary_search(e.samples, v)}

\* |Ecdf::new(a).value(v) - Ecdf::new(b).value(v)| at every point v of a or b.
BruteForceDiffs(a, b) ==
    UNION {{F64AbsDiff(p, q) : p \in CachedValues(a, v), q \in CachedValues(b, v)} :
           v \in Range(a) \cup Range(b)}

\* C1: for non-empty samples xs and ys, the statistic of the merge sweep is
\* the maximum over all points v of xs and ys of the absolute difference of
\* the two cached ECDFs at v.
C1_SweepEqualsBruteForce ==
    (out.op = "calculate_statistic" /\ xs # <<>> /\ ys # <<>>) =>
        /\ IsOk(out.ret)
        /\ out.ret.val \in BruteForceDiffs(xs, ys)
        /\ \A d \in BruteForceDiffs(xs, ys) : F64LE(d, out.ret.val)

C1_Witness ==
    /\ Returned("calculate_statistic")
    /\ HasDuplicates(xs)
    /\ HasDuplicates(ys)
    /\ Range(xs) \cap Range(ys) # {}
    /\ out.ret.val \notin {F64Zero, F64One}

\* C2: for a non-empty sample and every rank r in 1..len, the one-shot rank
\* returns what the cached structure's rank returns: the element at index
\* r - 1 of the ascending sort of the sample.
C2_RankAgrees ==
    (out.op = "rank" /\ samples # <<>> /\ out.arg \in 1..Len(samples)) =>
        /\ IsOk(out.ret)
        /\ out.ret = Ecdf_rank(Ecdf_new(samples).val, out.arg)
        /\ out.ret.val = At(Sort(samples), out.arg - 1)
        /\ IsRankElement(samples, out.arg, out.ret.val)

C2_Witness ==
    /\ Returned("rank")
    /\ HasDuplicates(samples)
    /\ samples # Sort(samples)
    /\ Len(samples) >= 3
    /\ out.arg \in 2..(Len(samples) - 1)

\* C3: for a non-empty sample and every query value t, the cached and the
\* one-shot ECDF both return (number of samples <= t) / length, whichever
\* index among equal elements the binary search returns.
C3_EcdfIsFraction ==
    (out.op \in {"Ecdf::value", "ecdf"} /\ samples # <<>>) =>
        /\ IsOk(out.ret)
        /\ out.ret.val = Fraction(samples, out.arg)
        /\ out.op = "Ecdf::value" => out.ret = ecdf(samples, out.arg)
        /\ out.op = "ecdf" => CachedValues(samples, out.arg) = {out.ret.val}

C3_Witness ==
    /\ Returned("Ecdf::value")
    /\ out.search.found
    /\ out.search.index + 1 < cached.val.length
    /\ At(cached.val.samples, out.search.index + 1) = out.arg

\* The least k with k * max >= p * len: ceil(p * len / max).
NearestRank(p, len, max) ==
    CHOOSE k \in 0..len : k * max >= p * len /\ \A h \in 0..(k - 1) : h * max < p * len

QuantileOps == {"Ecdf::percentile", "percentile", "Ecdf::permille", "permille"}
QuantileMax(op) == IF op \in {"Ecdf::percentile", "percentile"} THEN 100 ELSE 1000

\* C4: for a non-empty sample, percentile p in 1..100 and permille q in
\* 1..1000, both front ends return the element of the sorted sample at rank
\* ceil(p * len / 100), respectively ceil(q * len / 1000), and that rank is
\* in 1..len.
C4_NearestRank ==
    (out.op \in QuantileOps /\ samples # <<>> /\ out.arg \in 1..QuantileMax(out.op)) =>
        LET r == NearestRank(out.arg, Len(samples), QuantileMax(out.op)) IN
        /\ r \in 1..Len(samples)
        /\ IsOk(out.ret)
        /\ out.ret.val = At(Sort(samples), r - 1)
        /\ IsRankElement(samples, r, out.ret.val)

C4_Witness ==
    /\ Returned("permille")
    /\ Len(samples) = 3
    /\ out.arg = 334
    /\ out.ret.val # At(Sort(samples), 0)

\* The f64 c is within four units in the last place of the real number
\* 1.36 * sqrt((n1 + n2) / (n1 * n2)): for c = m * 2^(e - 52),
\* (m - 4)^2 * 2^(2 * (e - 52)) < 1156 * (n1 + n2) / (625 * n1 * n2)
\* < (m + 4)^2 * 2^(2 * (e - 52)), compared exactly (c < 1 here, so e < 0).
NearCriticalValue(c, n1, n2) ==
    LET lo == BigSub(c.m, <<4>>)
        hi == BigAdd(c.m, <<4>>)
        den == BigOfInt(625 * n1 * n2)
        num == BigShl(BigOfInt(1156 * (n1 + n2)), 2 * (52 - c.e))
    IN /\ c.e < 0
       /\ BigCmp(BigMul(BigMul(lo, lo), den), num) < 0
       /\ BigCmp(BigMul(BigMul(hi, hi), den), num) > 0

\* The real number the f64 a stands for is greater than the one b stands for:
\* the significands are compared at the smaller of the two exponents.
ValueGT(a, b) ==
    LET e == IF a.e < b.e THEN a.e ELSE b.e
    IN BigCmp(BigShl(a.m, a.e - e), BigShl(b.m, b.e - e)) > 0

\* C5: for valid inputs the result of test has is_rejected exactly when
\* statistic > critical_value for the fields of that result, with
\* critical_value the f64 1.36 * sqrt((n1 + n2) / (n1 * n2)) (the rounded
\* product with the rounded root of the rounded quotient, which lies within
\* four units in the last place of the real number); in particular
\* is_rejected is false when statistic = critical_value.
C5_RejectedIffExceeds ==
    (out.op = "test" /\ Len(xs) > 12 /\ Len(ys) > 12 /\ confidence = Rat(95, 100)) =>
        /\ IsOk(out.ret)
        /\ LET r == out.ret.val
               s == r.statistic
               c == r.critical_value
           IN /\ c = F64Mul(F64Div(136, 100),
                            F64Sqrt(F64Div(Len(xs) + Len(ys), Len(xs) * Len(ys))))
              /\ NearCriticalValue(c, Len(xs), Len(ys))
              /\ r.is_rejected = ValueGT(s, c)
              /\ s = c => ~r.is_rejected

\* test has returned a statistic equal to its critical value, 68 / 500, and
\* has not rejected.
C5_Witness ==
    /\ Returned("test")
    /\ out.ret.val.statistic = out.ret.val.critical_value
    /\ out.ret.val.statistic = F64Div(BoundaryLows, BoundarySecond)
    /\ ~out.ret.val.is_rejected

\* C6: test returns a result only if both samples have more than 12 elements
\* and confidence is 0.95; otherwise it aborts on the first violated check in
\* the order: a sample empty, confidence not in (0, 1), a sample of at most 12
\* elements, confidence not 0.95.
C6_PreconditionOrder ==
    out.op = "test" =>
        IF Len(xs) = 0 \/ Len(ys) = 0
        THEN out.ret = Panic("xs.len() > 0 && ys.len() > 0")
        ELSE IF confidence.num <= 0 \/ confidence.num >= confidence.den
        THEN out.ret = Panic("0.0 < confidence && confidence < 1.0")
        ELSE IF Len(xs) <= 12 \/ Len(ys) <= 12
        THEN out.ret = Panic("xs.len() > 12 && ys.len() > 12")
        ELSE IF confidence # Rat(95, 100)
        THEN out.ret = Panic("confidence == 0.95")
        ELSE IsOk(out.ret)

C6_Witness ==
    /\ out.op = "test"
    /\ Len(xs) = 0
    /\ Len(ys) = 1
    /\ confidence = One
    /\ Aborted

\* C7: in both front ends a query outside its domain aborts (percentile 0 or
\* above 100, permille 0 or above 1000, rank 0 or above the length), and
\* every query inside the domain, on a non-empty sample, returns a value.
C7_DomainChecked ==
    /\ out.op \in QuantileOps =>
          IF out.arg \in 1..QuantileMax(out.op)
          THEN samples # <<>> => IsOk(out.ret)
          ELSE Aborted
    /\ out.op \in {"Ecdf::rank", "rank"} =>
          IF out.arg \in 1..Len(samples) THEN IsOk(out.ret) ELSE Aborted

C7_Witness ==
    /\ out.op = "rank"
    /\ Len(samples) >= 2
    /\ out.arg = Len(samples) + 1
    /\ Aborted

\* C8: every operation given a zero-length sample aborts: Ecdf::new, ecdf,
\* rank, percentile and permille on an empty sample, and test when xs or ys
\* is empty; no structure is ever built from an empty sample.
C8_EmptyAborts ==
    /\ (out.op \in {"Ecdf::new", "ecdf", "rank", "percentile", "permille"} /\ samples = <<>>)
          => Aborted
    /\ (out.op = "test" /\ (xs = <<>> \/ ys = <<>>)) => Aborted
    /\ samples = <<>> => cached = None

C8_Witness ==
    /\ out.op = "Ecdf::new"
    /\ samples = <<>>
    /\ Aborted

\* C9: when ys is a permutation of xs (ys = xs included), the statistic of
\* test is 0 and the hypothesis is not rejected.
C9_PermutationGivesZero ==
    (Returned("test") /\ IsPermutation(xs, ys)) =>
        /\ out.ret.val.statistic = F64Zero
        /\ ~out.ret.val.is_rejected

C9_Witness ==
    /\ Returned("test")
    /\ IsPermutation(xs, ys)
    /\ xs # ys
    /\ xs # Sort(xs)

\* C10: when every element of ys is greater than every element of xs, the
\* statistic of test is 1.
C10_DisjointGivesOne ==
    (Returned("test") /\ \A a \in Range(xs) : \A b \in Range(ys) : a < b) =>
        out.ret.val.statistic = F64One

C10_Witness ==
    /\ Returned("test")
    /\ \A a \in Range(xs) : \A b \in Range(ys) : a < b
    /\ Cardinality(Range(xs)) >= 2
    /\ HasDuplicates(ys)

\* const EPSILON: f64 = 1e-10, the f64 nearest to 10^-10
EPSILON == [e |-> 0 - 34, m |-> <<15803, 10078, 3581, 1759>>]

\* The numbers of elements of b below the minimum and above the maximum of a.
NumBelow(a, b) == NumLess(b, MinOf(a))
NumAbove(a, b) == Len(b) - NumLeq(b, MaxOf(a))

\* b consists of the elements of a and of values outside the range of a.
IsExtended(a, b) ==
    /\ Len(b) = Len(a) + NumBelow(a, b) + NumAbove(a, b)
    /\ \A v \in Range(a) : NumEq(a, v) = NumEq(b, v)

\* max(n, m) as f64 / ys.len() as f64
ExpectedExtremes(a, b) ==
    LET n == NumBelow(a, b)
        m == NumAbove(a, b)
    IN F64Div(IF n > m THEN n ELSE m, Len(b))

\* C11 as stated: with n values added below min(xs) and m above max(xs) to a
\* copy of a sample xs of more than 12 elements, the statistic of test is
\* exactly the f64 max(n, m) / (L + n + m).
C11_Original ==
    (out.op = "test" /\ Len(xs) > 12 /\ IsExtended(xs, ys) /\ confidence = Rat(95, 100)) =>
        /\ IsOk(out.ret)
        /\ out.ret.val.statistic = ExpectedExtremes(xs, ys)

\* The difference at the last point of a: |1.0 - (n + L) / (L + n + m)|, the
\* f64 operations of the sweep there.
HighSideDiff(a, b) ==
    F64AbsDiff(F64One, F64Div(NumBelow(a, b) + Len(a), Len(b)))

\* The difference at the last added low value: |0.0 - n / (L + n + m)|.
LowSideDiff(a, b) ==
    F64Div(NumBelow(a, b), Len(b))

\* C11: with n values added below min(xs) and m above max(xs) to a copy of a
\* sample xs of more than 12 elements, the statistic of test is within
\* EPSILON of max(n, m) / (L + n + m); it is exactly that f64 when n > m, it
\* is the f64 |1.0 - (n + L) / (L + n + m)| when m > n, the greater of the
\* f64 n / (L + n + m) and |1.0 - (n + L) / (L + n + m)| when n = m > 0, and
\* 0 when n = m = 0.
C11_ExtremesWithinEpsilon ==
    (out.op = "test" /\ Len(xs) > 12 /\ IsExtended(xs, ys) /\ confidence = Rat(95, 100)) =>
        /\ IsOk(out.ret)
        /\ F64GT(EPSILON, F64AbsDiff(out.ret.val.statistic, ExpectedExtremes(xs, ys)))
        /\ NumBelow(xs, ys) > NumAbove(xs, ys) =>
               out.ret.val.statistic = ExpectedExtremes(xs, ys)
        /\ NumAbove(xs, ys) > NumBelow(xs, ys) =>
               out.ret.val.statistic = HighSideDiff(xs, ys)
        /\ (NumBelow(xs, ys) = NumAbove(xs, ys) /\ NumBelow(xs, ys) > 0) =>
               out.ret.val.statistic =
                   IF F64GT(HighSideDiff(xs, ys), LowSideDiff(xs, ys))
                   THEN HighSideDiff(xs, ys) ELSE LowSideDiff(xs, ys)
        /\ (NumBelow(xs, ys) = 0 /\ NumAbove(xs, ys) = 0) =>
               out.ret.val.statistic = F64Zero

\* More values above than below, and a statistic that is not the f64
\* max(n, m) / (L + n + m).
C11_Witness ==
    /\ Returned("test")
    /\ IsExtended(xs, ys)
    /\ NumBelow(xs, ys) >= 1
    /\ NumAbove(xs, ys) > NumBelow(xs, ys)
    /\ out.ret.val.statistic # ExpectedExtremes(xs, ys)

\* C12: for a non-empty sample and every p in 1..100, percentile p and
\* permille 10 * p return the same element, whichever of the two front ends
\* answers each of them.
C12_PercentileIsPermille ==
    (out.op \in {"Ecdf::percentile", "percentile"} /\ samples # <<>> /\ out.arg \in 1..100) =>
        /\ IsOk(out.ret)
        /\ out.ret = permille(samples, out.arg * 10)
        /\ out.ret = Ecdf_permille(Ecdf_new(samples).val, out.arg * 10)

C12_Witness ==
    /\ Returned("Ecdf::percentile")
    /\ Len(samples) = 4
    /\ samples # Sort(samples)
    /\ out.arg = 50
    /\ out.ret.val # MinOf(samples)

RankOps == {"Ecdf::rank", "rank"}

\* The size of the domain of an order statistic: 100, 1000 or the length.
DomainMax(op, smp) == IF op \in RankOps THEN Len(smp) ELSE QuantileMax(op)

\* Every value either ECDF front end can report for v on the sample smp.
EcdfValues(smp, v) == CachedValues(smp, v) \cup {ecdf(smp, v).val}

\* C13: for a non-empty sample, the ECDF (of either front end) at the value
\* returned by percentile p is at least p / 100, at the value returned by
\* permille q at least q / 1000, and at the value returned by rank r at
\* least r / len, whichever front end returned the value.
C13_EcdfOfQuantileGeq ==
    (/\ out.op \in QuantileOps \cup RankOps
     /\ samples # <<>>
     /\ out.arg \in 1..DomainMax(out.op, samples)) =>
        /\ IsOk(out.ret)
        /\ LET original == F64Div(out.arg, DomainMax(out.op, samples)) IN
           \A e \in EcdfValues(samples, out.ret.val) : F64LE(original, e)

C13_Witness ==
    /\ Returned("Ecdf::permille")
    /\ Len(samples) = 3
    /\ HasDuplicates(samples)
    /\ out.arg = 334
    /\ EcdfValues(samples, out.ret.val) = {F64Div(2, 3)}

EcdfOps == {"Ecdf::value", "ecdf"}

\* (actual * scale as f64).floor(), the argument the ECDF value is turned into
ScaledFloor(actual, scale) == F64Floor(F64Mul(actual, F64OfInt(scale)))

\* Both front ends return a value of at most v for the order statistic q(p).
BothAtMost(one_shot, cached_one, v) ==
    /\ IsOk(one_shot) /\ one_shot.val <= v
    /\ IsOk(cached_one) /\ cached_one.val <= v

\* C14: for a non-empty sample and a query value v with ECDF value e (from
\* either front end): if p = floor(e * 100) >= 1 then percentile p is at most
\* v, if q = floor(e * 1000) >= 1 then permille q is at most v, and if
\* r = floor(e * len) >= 1 then rank r is at most v, in both front ends.
C14_QuantileOfEcdfLeq ==
    (out.op \in EcdfOps /\ samples # <<>>) =>
        /\ IsOk(out.ret)
        /\ LET v == out.arg
               c == Ecdf_new(samples).val
               p == ScaledFloor(out.ret.val, 100)
               q == ScaledFloor(out.ret.val, 1000)
               r == ScaledFloor(out.ret.val, Len(samples))
           IN /\ p >= 1 => BothAtMost(percentile(samples, p), Ecdf_percentile(c, p), v)
              /\ q >= 1 => BothAtMost(permille(samples, q), Ecdf_permille(c, q), v)
              /\ r >= 1 => BothAtMost(rank(samples, r), Ecdf_rank(c, r), v)

C14_Witness ==
    /\ Returned("ecdf")
    /\ samples # Sort(samples)
    /\ out.ret.val = F64Div(2, 3)
    /\ ScaledFloor(out.ret.val, 100) = 66
    /\ ScaledFloor(out.ret.val, 1000) = 666
    /\ ScaledFloor(out.ret.val, Len(samples)) = 2
    /\ percentile(samples, 66).val = out.arg

\* C15: for a non-empty sample both ECDF front ends are non-decreasing in the
\* query value: a value returned for t is at least every value either front
\* end returns for a smaller query and at most every value for a larger one;
\* and it lies in [0, 1].
C15_EcdfMonotone ==
    (out.op \in EcdfOps /\ samples # <<>>) =>
        /\ IsOk(out.ret)
        /\ F64LE(F64Zero, out.ret.val)
        /\ F64LE(out.ret.val, F64One)
        /\ \A u \in QueryValues :
               /\ u <= out.arg => \A e \in EcdfValues(samples, u) : F64LE(e, out.ret.val)
               /\ u >= out.arg => \A e \in EcdfValues(samples, u) : F64LE(out.ret.val, e)

C15_Witness ==
    /\ Returned("Ecdf::value")
    /\ HasDuplicates(samples)
    /\ \E u \in QueryValues : u < out.arg /\ F64GT(out.ret.val, ecdf(samples, u).val)
    /\ \E u \in QueryValues : u > out.arg /\ F64GT(ecdf(samples, u).val, out.ret.val)
    /\ F64GT(ecdf(samples, out.arg - 1).val, F64Zero)

\* C16 as stated: for a non-empty sample of a machine integer type, the ECDF
\* at min(xs) - 1, computed in the sample type, is 0 in both front ends, also
\* when min(xs) is the smallest value of the type.
C16_Original ==
    (samples # <<>> /\ out.op \in EcdfOps \cup {"min - 1"}) =>
        /\ IsOk(out.ret)
        /\ out.ret.val = F64Zero

\* C16: for a non-empty sample of a machine integer type whose minimum is not
\* the smallest value of the type, the ECDF at min(xs) - 1 is 0 in both front
\* ends. When min(xs) is the smallest value of the type the subtraction
\* overflows: it aborts, or it wraps to the largest value of the type, where
\* the ECDF is 1.
C16_BelowMinIsZero ==
    samples # <<>> =>
        /\ (out.op \in EcdfOps /\ out.arg = MinOf(samples) - 1) =>
               out.ret = Ok(F64Zero)
        /\ (out.op \in EcdfOps /\ out.arg # MinOf(samples) - 1) =>
               /\ \E ty \in IntTypes : MinOf(samples) = ty.min /\ out.arg = ty.max
               /\ out.ret = Ok(F64One)
        /\ out.op = "min - 1" =>
               /\ \E ty \in IntTypes : MinOf(samples) = ty.min
               /\ out.ret = Panic("attempt to subtract with overflow")

C16_Witness ==
    /\ Returned("Ecdf::value")
    /\ HasDuplicates(samples)
    /\ out.arg = MinOf(samples) - 1
    /\ \E ty \in IntTypes : ty.min < 0 /\ out.arg = ty.min
    /\ out.ret.val = F64Zero

\* C17: for a non-empty sample, in both front ends, rank 1 returns the
\* minimum, rank len the maximum, percentile 100 and permille 1000 the
\* maximum; Ecdf::min returns a value at most every element and Ecdf::max a
\* value at least every element.
C17_Extremes ==
    samples # <<>> =>
        /\ (out.op \in RankOps /\ out.arg = 1) => out.ret = Ok(MinOf(samples))
        /\ (out.op \in RankOps /\ out.arg = Len(samples)) => out.ret = Ok(MaxOf(samples))
        /\ (out.op \in QuantileOps /\ out.arg = QuantileMax(out.op)) =>
               out.ret = Ok(MaxOf(samples))
        /\ out.op = "Ecdf::min" =>
               IsOk(out.ret) /\ \A k \in 1..Len(samples) : out.ret.val <= samples[k]
        /\ out.op = "Ecdf::max" =>
               IsOk(out.ret) /\ \A k \in 1..Len(samples) : out.ret.val >= samples[k]

C17_Witness ==
    /\ Returned("rank")
    /\ Len(samples) >= 3
    /\ out.arg = Len(samples)
    /\ samples[Len(samples)] # MaxOf(samples)
    /\ samples[1] # MinOf(samples)
    /\ HasDuplicates(samples)

\* The arguments of the model for an order statistic, inside its domain.
DomainArgs(op, smp) ==
    IF op \in RankOps THEN 1..Len(smp)
    ELSE IF op \in {"Ecdf::percentile", "percentile"} THEN 1..PercentileMax
    ELSE {q \in PermilleArgs : 0 < q /\ q <= PermilleMax}

\* The order statistic of the kind of op at argument a, by the one-shot
\* function and by the cached structure.
OneShot(op, smp, a) ==
    IF op \in RankOps THEN rank(smp, a)
    ELSE IF op \in {"Ecdf::percentile", "percentile"} THEN percentile(smp, a)
    ELSE permille(smp, a)

Cached(op, smp, a) ==
    LET e == Ecdf_new(smp).val IN
    IF op \in RankOps THEN Ecdf_rank(e, a)
    ELSE IF op \in {"Ecdf::percentile", "percentile"} THEN Ecdf_percentile(e, a)
    ELSE Ecdf_permille(e, a)

\* The argument that follows a among the arguments of the model, if any.
NextArgs(op, smp, a) ==
    IF op \in {"Ecdf::permille", "permille"}
    THEN LET later == {b \in DomainArgs(op, smp) : a < b} IN
         {b \in later : \A c \in later : b <= c}
    ELSE {a + 1} \cap DomainArgs(op, smp)

\* C18: for a non-empty sample, rank, percentile and permille of both front
\* ends are non-decreasing in their argument (the value returned for an
\* argument is at most the value either front end returns for the next
\* argument), and every value returned lies between the minimum and the
\* maximum of the sample.
C18_OrderStatsMonotone ==
    (/\ out.op \in QuantileOps \cup RankOps
     /\ samples # <<>>
     /\ out.arg \in DomainArgs(out.op, samples)) =>
        /\ IsOk(out.ret)
        /\ MinOf(samples) <= out.ret.val
        /\ out.ret.val <= MaxOf(samples)
        /\ \A b \in NextArgs(out.op, samples, out.arg) :
               LET one_shot == OneShot(out.op, samples, b)
                   cached_one == Cached(out.op, samples, b)
               IN /\ IsOk(one_shot) /\ out.ret.val <= one_shot.val
                  /\ IsOk(cached_one) /\ out.ret.val <= cached_one.val

C18_Witness ==
    /\ Returned("Ecdf::percentile")
    /\ Len(samples) = 4
    /\ samples # Sort(samples)
    /\ out.arg = 50
    /\ out.ret.val < percentile(samples, 51).val
    /\ MinOf(samples) < out.ret.val

IsSorted(s) == \A k \in 1..(Len(s) - 1) : s[k] <= s[k + 1]

CachedOps ==
    {"Ecdf::value", "Ecdf::percentile", "Ecdf::permille", "Ecdf::rank", "Ecdf::min", "Ecdf::max"}

\* Every answer the cached structure e can give to the query op with argument a.
Answers(op, e, a) ==
    IF op = "Ecdf::value" THEN {Ecdf_value(e, a, bs) : bs \in binary_search(e.samples, a)}
    ELSE IF op = "Ecdf::percentile" THEN {Ecdf_percentile(e, a)}
    ELSE IF op = "Ecdf::permille" THEN {Ecdf_permille(e, a)}
    ELSE IF op = "Ecdf::rank" THEN {Ecdf_rank(e, a)}
    ELSE IF op = "Ecdf::min" THEN {Ecdf_min(e)}
    ELSE {Ecdf_max(e)}

\* The stored samples are the ascending permutation of the caller's sample,
\* and the query just answered can only be answered the same way again.
StoredSamplesSorted ==
    IsOk(cached) =>
        /\ IsSorted(cached.val.samples)
        /\ IsPermutation(cached.val.samples, samples)
        /\ cached.val.length = Len(cached.val.samples)
        /\ cached.val.length = Len(samples)
        /\ out.op \in CachedOps => Answers(out.op, cached.val, out.arg) = {out.ret}

\* C19: once Ecdf::new(xs) has returned, and after any sequence of queries, the
\* stored samples are non-decreasing and a permutation of xs, the stored length
\* is their number and the number of elements of xs; no step changes the
\* structure; and a query repeated on it has only the answer it gave.
C19_StoredSamplesStable ==
    /\ []StoredSamplesSorted
    /\ [][IsOk(cached) => cached' = cached]_vars

C19_Witness ==
    /\ Returned("Ecdf::value")
    /\ samples # Sort(samples)
    /\ Cardinality(binary_search(cached.val.samples, out.arg)) > 1
    /\ out.search.index = 0

CopyingOps == {"rank", "percentile", "permille", "calculate_statistic", "test"}

\* C20: a call of the one-shot rank, percentile or permille, of
\* calculate_statistic or of test leaves the caller's sequences as they were:
\* the same elements at the same positions.
C20_CallerUnchanged ==
    [][out'.op \in CopyingOps => (xs' = xs /\ ys' = ys)]_vars

\* A call of calculate_statistic or of test in progress, after its sorts: the
\* caller's xs and ys are unsorted and the vectors of the call are sorted.
C20_Witness ==
    /\ frame # None
    /\ frame.pc = "sweep"
    /\ Len(xs) > MinSize
    /\ xs # Sort(xs)
    /\ ys # Sort(ys)
    /\ Memory[frame.xs] = Sort(xs)
    /\ Memory[frame.ys] = Sort(ys)

Window(f) == f.high - f.low
AllEqual(s) == \A k \in 1..Len(s) : s[k] = s[1]

\* C21: the Quick Select loop of rank terminates for every non-empty sample
\* and every rank in 1..length: an iteration that does not return ends with
\* a window strictly smaller than the one it began with, and every call in
\* progress eventually returns a value.
C21_Terminates ==
    /\ [][(Selecting /\ frame' # None /\ frame.pc # "loop" /\ frame'.pc = "loop")
            => Window(frame') < frame.entry[2] - frame.entry[1]]_vars
    /\ Selecting ~> (frame = None /\ IsOk(out.ret))

C21_Witness ==
    /\ out.op = "rank"
    /\ frame = None
    /\ IsOk(out.ret)
    /\ Len(samples) >= 3
    /\ AllEqual(samples)
    /\ out.arg = Len(samples)

\* C22: for valid samples (more than 12 elements each) and confidence 0.95,
\* the statistic in the result of test is between 0 and 1 inclusive, and the
\* confidence field of the result is the confidence passed in.
C22_StatisticInUnitInterval ==
    (out.op = "test" /\ Len(xs) > MinSize /\ Len(ys) > MinSize /\ confidence = Confidence95) =>
        /\ IsOk(out.ret)
        /\ F64LE(F64Zero, out.ret.val.statistic)
        /\ F64LE(out.ret.val.statistic, F64One)
        /\ out.ret.val.confidence = confidence

C22_Witness ==
    /\ Returned("test")
    /\ F64GT(out.ret.val.statistic, F64Zero)
    /\ F64GT(F64One, out.ret.val.statistic)
    /\ out.ret.val.confidence = Confidence95
    /\ Len(xs) # Len(ys)

\* The indices of s in [from, to) whose element satisfies Holds.
Indices(s, from, to, Holds(_)) == {k \in from..(to - 1) : Holds(At(s, k))}

AfterPartition1 == Selecting /\ frame.pc = "decide1"

\* After Partition 1 the items of the window less than the pivot are left of
\* bottom and the items from bottom to high - 1 are not less than the pivot.
Partition1Splits ==
    LET Less(v) == v < frame.pivot IN
    /\ \A k \in Indices(frame.samples, frame.low, frame.high, Less) : k < frame.bottom
    /\ \A k \in frame.bottom..(frame.high - 1) : At(frame.samples, k) >= frame.pivot

\* C23 as stated: in every iteration, after Partition 1 the items of the
\* window less than the pivot are left of bottom, those from bottom to
\* high - 1 are not less than the pivot, and bottom is the number of items of
\* the window [low, high) that are less than the pivot.
C23_Original ==
    AfterPartition1 =>
        LET Less(v) == v < frame.pivot IN
        /\ Partition1Splits
        /\ frame.bottom = Cardinality(Indices(frame.samples, frame.low, frame.high, Less))

\* C23: in every iteration, after Partition 1 the items of the window less
\* than the pivot are left of bottom, those from bottom to high - 1 are not
\* less than the pivot, and bottom is low plus the number of items of the
\* window [low, high) that are less than the pivot, which is the number of
\* items of the whole working copy that are less than the pivot.
C23_Partition1 ==
    AfterPartition1 =>
        LET Less(v) == v < frame.pivot IN
        /\ Partition1Splits
        /\ frame.bottom - frame.low
              = Cardinality(Indices(frame.samples, frame.low, frame.high, Less))
        /\ frame.bottom = Cardinality(Indices(frame.samples, 0, Len(frame.samples), Less))

C23_Witness ==
    /\ AfterPartition1
    /\ frame.low > 0
    /\ frame.bottom > frame.low
    /\ frame.bottom < frame.high - 1

AfterPartition2 == Selecting /\ frame.pc = "decide2"

\* The window [low, high) is made only of copies of the pivot.
OnlyPivots ==
    \A k \in frame.low..(frame.high - 1) : At(frame.samples, k) = frame.pivot

\* The number of items of the working copy less than or equal to the pivot.
NumLeqPivot ==
    LET Leq(v) == v <= frame.pivot IN
    Cardinality(Indices(frame.samples, 0, Len(frame.samples), Leq))

\* C24 as stated: in every iteration that reaches Partition 2, after
\* Partition 2 the items of the window [low, high) equal to the pivot are left
\* of the new bottom, and the new bottom is the number of items less than or
\* equal to the pivot, also for a window made only of copies of the pivot.
C24_Original ==
    AfterPartition2 =>
        LET Eq(v) == v = frame.pivot IN
        /\ \A k \in Indices(frame.samples, frame.low, frame.high, Eq) : k < frame.bottom
        /\ frame.bottom = NumLeqPivot

\* What the second partition does establish (C24): in every iteration
\* that reaches Partition 2, after Partition 2 the
\* items from low to bottom - 1 are equal to the pivot and the items from
\* bottom + 1 to high - 1 are greater than it. If the window [low, high) has an
\* item other than the pivot, the item at bottom is greater than the pivot
\* too: the items equal to the pivot are left of bottom and bottom is the
\* number of items less than or equal to the pivot. If the window is made
\* only of copies of the pivot, bottom is high - 1, on the last copy, one
\* less than the number of items less than or equal to the pivot.
C24_Partition2 ==
    AfterPartition2 =>
        /\ \A k \in frame.low..(frame.bottom - 1) : At(frame.samples, k) = frame.pivot
        /\ \A k \in (frame.bottom + 1)..(frame.high - 1) : At(frame.samples, k) > frame.pivot
        /\ frame.low <= frame.bottom /\ frame.bottom < frame.high
        /\ IF OnlyPivots
           THEN /\ frame.bottom = frame.high - 1
                /\ At(frame.samples, frame.bottom) = frame.pivot
                /\ frame.bottom = NumLeqPivot - 1
           ELSE /\ At(frame.samples, frame.bottom) > frame.pivot
                /\ frame.bottom = NumLeqPivot

C24_Witness ==
    /\ AfterPartition2
    /\ OnlyPivots
    /\ frame.high - frame.low >= 2
    /\ frame.bottom = NumLeqPivot - 1



\* An iteration of the merge loop has just ended.
IterationEnded == Sweeping /\ IsOk(frame.current)

\* The points of xs and ys that are at most v.
PointsUpTo(v) == {p \in Range(xs) \cup Range(ys) : p <= v}

\* |ECDF_xs(v) - ECDF_ys(v)| as the code computes it from the two counts.
DiffAt(v) == F64AbsDiff(Fraction(xs, v), Fraction(ys, v))

\* C25: at the end of every iteration of the merge loop, ecdf_xs is the
\* fraction of xs that is <= current, ecdf_ys is the fraction of ys that is
\* <= current, and statistic is the maximum of |ECDF_xs(v) - ECDF_ys(v)| over
\* the sample points v <= current.
C25_RunningValues ==
    IterationEnded =>
        LET current == frame.current.val IN
        /\ frame.sweep.ecdf_xs = Fraction(xs, current)
        /\ frame.sweep.ecdf_ys = Fraction(ys, current)
        /\ \E v \in PointsUpTo(current) : frame.sweep.statistic = DiffAt(v)
        /\ \A v \in PointsUpTo(current) : F64LE(DiffAt(v), frame.sweep.statistic)

C25_Witness ==
    /\ IterationEnded
    /\ frame.current.val \notin Range(xs)
    /\ Cardinality(PointsUpTo(frame.current.val)) >= 2
    /\ SweepGuard(frame)
    /\ frame.sweep.statistic # DiffAt(frame.current.val)
    /\ frame.sweep.statistic # F64One

\* The cursor into the sorted copy s is on the first value greater than v, or
\* at the end when there is none.
OnFirstGreater(cursor, s, v) == cursor = NumLeq(s, v)

\* The cursor into the sorted copy s is on the last duplicate of the first
\* value of s greater than v.
OnLastOfNextRun(cursor, s, v) ==
    /\ NumLeq(s, v) < Len(s)
    /\ cursor = NumLeq(s, At(s, NumLeq(s, v))) - 1

\* C26 as stated: at the end of every iteration of the merge loop, i and j
\* index the first values of sorted xs and sorted ys that are greater than
\* current (n and m when there is none), also on the side whose value was
\* not the current one and which has a run of duplicates.
C26_Original ==
    IterationEnded =>
        /\ OnFirstGreater(frame.sweep.i, frame.xs, frame.current.val)
        /\ OnFirstGreater(frame.sweep.j, frame.ys, frame.current.val)

\* Where the cursors are (C26): at the end of every iteration, on a side with
\* the value current the cursor indexes the first value of the sorted copy
\* greater than current (its length when there is none); on a side that does
\* not have it, the cursor indexes the last duplicate of the first value
\* greater than current, which is the first one only when that value occurs
\* once.
C26_Cursors ==
    IterationEnded =>
        LET current == frame.current.val IN
        /\ IF current \in Range(frame.xs)
           THEN OnFirstGreater(frame.sweep.i, frame.xs, current)
           ELSE OnLastOfNextRun(frame.sweep.i, frame.xs, current)
        /\ IF current \in Range(frame.ys)
           THEN OnFirstGreater(frame.sweep.j, frame.ys, current)
           ELSE OnLastOfNextRun(frame.sweep.j, frame.ys, current)

C26_Witness ==
    /\ IterationEnded
    /\ frame.current.val \notin Range(frame.xs)
    /\ frame.sweep.i > NumLeq(frame.xs, frame.current.val)
    /\ frame.sweep.j < Len(frame.ys)
    /\ frame.sweep.i = 2

\* The loop has stopped: a cursor is at the end of its array.
SweepStopped == IterationEnded /\ ~SweepGuard(frame)

\* The points of xs and ys that the loop has not come to.
PointsLeft == (Range(xs) \cup Range(ys)) \ PointsUpTo(frame.current.val)

\* C27: when the merge loop stops because a cursor is at the end of its
\* array, the running ECDF of that side is 1, and no point of the other
\* array that was not processed has an absolute ECDF difference larger than
\* the statistic.
C27_StopIsSafe ==
    SweepStopped =>
        /\ frame.sweep.i >= Len(frame.xs) => frame.sweep.ecdf_xs = F64One
        /\ frame.sweep.j >= Len(frame.ys) => frame.sweep.ecdf_ys = F64One
        /\ \A v \in PointsLeft : F64LE(DiffAt(v), frame.sweep.statistic)

C27_Witness ==
    /\ SweepStopped
    /\ frame.sweep.i >= Len(frame.xs)
    /\ Cardinality(PointsLeft) >= 2
    /\ \E v \in PointsLeft : F64GT(DiffAt(v), F64Zero)
    /\ frame.sweep.ecdf_ys # F64Zero

AtLoopTop == Selecting /\ frame.pc = "loop"

\* The indices of the window of the call in progress.
WindowIndices == frame.low..(frame.high - 1)

\* C28: at the top of every iteration of the loop of rank(xs, r),
\* 0 <= low < r <= high <= len(xs), the working copy is a permutation of xs,
\* every item left of low is <= every item of the window and every item at or
\* right of high is >= every item of the window; so assert!(low < high) never
\* fails and no index is out of bounds.
C28_WindowHoldsRank ==
    /\ AtLoopTop =>
          /\ 0 <= frame.low /\ frame.low < frame.rank
          /\ frame.rank <= frame.high /\ frame.high <= Len(samples)
          /\ IsPermutation(frame.samples, samples)
          /\ \A a \in 0..(frame.low - 1) : \A k \in WindowIndices :
                At(frame.samples, a) <= At(frame.samples, k)
          /\ \A b \in frame.high..(Len(samples) - 1) : \A k \in WindowIndices :
                At(frame.samples, b) >= At(frame.samples, k)
    /\ out.op = "rank" => out.ret # Panic("low < high")
    /\ (Selecting /\ frame.pc # "loop") =>
          /\ frame.low <= frame.bottom /\ frame.bottom <= frame.top
          /\ frame.top < frame.high /\ frame.high <= Len(frame.samples)

C28_Witness ==
    /\ AtLoopTop
    /\ frame.low > 0
    /\ frame.high < Len(samples)
    /\ frame.high - frame.low >= 2
    /\ frame.samples # samples

\* C29: for non-empty samples calculate_statistic is symmetric and does not
\* depend on the order of the elements: the statistic of (ys, xs) and the
\* statistic after any rearrangement of xs or of ys are the statistic of
\* (xs, ys).
C29_SymmetricOrderFree ==
    [][(Returned("calculate_statistic") /\ out'.op = "calculate_statistic")
          => out'.ret = out.ret]_vars

C29_Witness ==
    /\ StatisticReturned
    /\ xs # Sort(xs)
    /\ ys # Sort(ys)
    /\ Len(xs) # Len(ys)
    /\ out.ret.val \notin {F64Zero, F64One}



\* The program has ended, by returning or by a panic.
MainEnded == out.op = "critical_values" /\ frame = None

\* The rows for num_samples against every size from FirstSize to limit.
IsCriticalTable(rows, args) ==
    /\ Len(rows) = (IF args.limit >= FirstSize THEN args.limit - FirstSize + 1 ELSE 0)
    /\ \A k \in 1..Len(rows) :
          /\ rows[k].n1 = args.num_samples
          /\ rows[k].n2 = FirstSize + k - 1
          /\ rows[k].confidence = args.confidence
          /\ rows[k].critical_value
                = F64Mul(F64Div(136, 100),
                         F64Sqrt(F64Div(rows[k].n1 + rows[k].n2, rows[k].n1 * rows[k].n2)))

\* C30: given a confidence strictly between zero and one and positive
\* integers num_samples and limit, the critical_values program prints the
\* critical value for num_samples against every size from 16 to limit at
\* that confidence, and does not abort.
C30_Original ==
    (/\ MainEnded
     /\ RatGT(out.arg.confidence, Zero) /\ RatGT(One, out.arg.confidence)
     /\ out.arg.num_samples > 0
     /\ out.arg.limit > 0) =>
        /\ IsOk(out.ret)
        /\ IsCriticalTable(out.ret.val, out.arg)

====
